---- MODULE Spec2Model ----
(***************************************************************************)
(* SkillPulse job-market analyzer: the text-extraction core                *)
(* (src/app/extractor.py) and the salary normalizer                        *)
(* (src/app/analytics.py, parse_salary).                                   *)
(*                                                                         *)
(* A string is a sequence of characters; a character is a one-character    *)
(* string, except the two dashes outside ASCII, which are named below.     *)
(* Python's re module is modelled by a backtracking matcher over pattern   *)
(* trees that yields the end positions of a match in the order Python's    *)
(* engine tries them, so that greedy and lazy repetition, alternation      *)
(* order, leftmost search and the groups' spans are those of the code.     *)
(***************************************************************************)
EXTENDS Integers, Sequences, FiniteSets, TLC

VARIABLES text, parts, pc, salary_value, salary_text, found_skills, title,
          vocabulary, extracted,
          job_posts, skills, now, limit, all_skills, result, skill_name,
          messages, position, saved_count, session, returned, posts_before

vars == <<text, parts, pc, salary_value, salary_text, found_skills, title,
          vocabulary, extracted, job_posts, skills, now, limit, all_skills, result,
          skill_name, messages, position, saved_count, session, returned,
          posts_before>>

\* a step of the text extraction leaves the storage and the queries alone
\* a step outside collect_from_channel leaves the run alone
CollectorUntouched ==
    UNCHANGED <<messages, position, saved_count, session, returned, posts_before>>
StorageUntouched ==
    /\ UNCHANGED <<job_posts, skills, now, limit, all_skills, result, skill_name>>
    /\ CollectorUntouched
\* a step outside the collector's loop leaves the module-level vocabulary and
\* the record of what was extracted alone
VocabularyUntouched == UNCHANGED <<vocabulary, extracted>>

(***************************************************************************)
(* Characters                                                              *)
(***************************************************************************)
RECURSIVE CharsFrom(_, _)
CharsFrom(str, i) == IF i > Len(str) THEN <<>> ELSE <<SubSeq(str, i, i)>> \o CharsFrom(str, i + 1)
\* the characters of a string literal
Chars(str) == CharsFrom(str, 1)

EnDash == "<U+2013>"
EmDash == "<U+2014>"

LowerLetters == Chars("abcdefghijklmnopqrstuvwxyz")
UpperLetters == Chars("ABCDEFGHIJKLMNOPQRSTUVWXYZ")
Lower == {LowerLetters[i] : i \in 1..26}
Upper == {UpperLetters[i] : i \in 1..26}
Letter == Lower \cup Upper
Digit == {"0", "1", "2", "3", "4", "5", "6", "7", "8", "9"}
Space == {" ", "\n", "\t"}
WordChar == Letter \cup Digit \cup {"_"}

\* str.upper() and str.lower() on one character
UpperOf(c) == IF c \in Lower THEN UpperLetters[CHOOSE i \in 1..26 : LowerLetters[i] = c] ELSE c
LowerOf(c) == IF c \in Upper THEN LowerLetters[CHOOSE i \in 1..26 : UpperLetters[i] = c] ELSE c

RECURSIVE ToUpper(_)
ToUpper(s) == IF s = <<>> THEN <<>> ELSE <<UpperOf(Head(s))>> \o ToUpper(Tail(s))
RECURSIVE ToLower(_)
ToLower(s) == IF s = <<>> THEN <<>> ELSE <<LowerOf(Head(s))>> \o ToLower(Tail(s))

\* None and a present value of Optional[...]
None == <<>>
Some(v) == <<v>>

(***************************************************************************)
(* Pattern trees (the subset of Python's re syntax the code uses)          *)
(***************************************************************************)
Unbounded == 0 - 1

AnyOf(S) == [op |-> "set", cs |-> S]
Ch(c) == AnyOf({c})
Cat(rs) == [op |-> "cat", rs |-> rs]
Alt(rs) == [op |-> "alt", rs |-> rs]
Rep(r, lo, hi) == [op |-> "rep", r |-> r, lo |-> lo, hi |-> hi, greedy |-> TRUE]
LazyRep(r, lo, hi) == [op |-> "rep", r |-> r, lo |-> lo, hi |-> hi, greedy |-> FALSE]
Opt(r) == Rep(r, 0, 1)
Star(r) == Rep(r, 0, Unbounded)
Plus(r) == Rep(r, 1, Unbounded)
RECURSIVE StrFrom(_, _)
StrFrom(str, i) == IF i > Len(str) THEN <<>> ELSE <<Ch(SubSeq(str, i, i))>> \o StrFrom(str, i + 1)
\* a literal run of characters
Str(str) == Cat(StrFrom(str, 1))
EndAnchor == [op |-> "eos"]
WordBoundary == [op |-> "wb"]

\* re.compile(pattern, re.IGNORECASE): every character of the pattern stands
\* for both of its cases
FoldCase(cs) == cs \cup {UpperOf(c) : c \in cs} \cup {LowerOf(c) : c \in cs}

RECURSIVE IgnoreCase(_)
RECURSIVE IgnoreCaseEach(_)
IgnoreCase(r) ==
    CASE r.op = "set" -> AnyOf(FoldCase(r.cs))
      [] r.op \in {"cat", "alt"} -> [op |-> r.op, rs |-> IgnoreCaseEach(r.rs)]
      [] r.op = "rep" -> [r EXCEPT !.r = IgnoreCase(r.r)]
      [] OTHER -> r

\* a pattern given as its top-level parts, compiled under re.IGNORECASE
IgnoreCaseEach(rs) ==
    IF rs = <<>> THEN <<>> ELSE <<IgnoreCase(Head(rs))>> \o IgnoreCaseEach(Tail(rs))

IsWordAt(s, i) == i >= 1 /\ i <= Len(s) /\ s[i] \in WordChar

RECURSIVE FirstOnly(_, _, _)
\* es without the later repetitions of a position (a later try from the same
\* position succeeds only if the earlier one did)
FirstOnly(es, j, acc) ==
    IF j > Len(es) THEN acc
    ELSE FirstOnly(es, j + 1,
                   IF \E k \in 1..Len(acc) : acc[k] = es[j] THEN acc ELSE Append(acc, es[j]))

\* A repeated character class from position i: the run of characters of the
\* class is taken as far as the quantifier allows, and the match can end after
\* each count from lo up to that, longest first if greedy, shortest first if lazy.
CharRunEnds(r, s, i) ==
    LET cap == IF r.hi # Unbounded /\ r.hi < Len(s) - i THEN r.hi ELSE Len(s) - i
        run == CHOOSE n \in 0..cap :
                   /\ \A j \in 1..n : s[i + j] \in r.r.cs
                   /\ n = cap \/ s[i + n + 1] \notin r.r.cs
        count == run - r.lo + 1
    IN  IF count <= 0 THEN <<>>
        ELSE <<>> \o [n \in 1..count |-> IF r.greedy THEN i + run - n + 1 ELSE i + r.lo + n - 1]

RECURSIVE Ends(_, _, _)
RECURSIVE CatEnds(_, _, _, _)
RECURSIVE AltEnds(_, _, _, _)
RECURSIVE RepEnds(_, _, _, _)
RECURSIVE EachEnds(_, _, _, _, _)

\* The positions (characters consumed, 0..Len(s)) at which a match of r that
\* starts at position i can end, in the order the backtracking engine tries them.
Ends(r, s, i) ==
    CASE r.op = "set" -> IF i < Len(s) /\ s[i + 1] \in r.cs THEN <<i + 1>> ELSE <<>>
      [] r.op = "eos" -> IF i = Len(s) \/ (i = Len(s) - 1 /\ s[Len(s)] = "\n") THEN <<i>> ELSE <<>>
      [] r.op = "wb"  -> IF IsWordAt(s, i) # IsWordAt(s, i + 1) THEN <<i>> ELSE <<>>
      [] r.op = "cat" -> CatEnds(r.rs, 1, s, <<i>>)
      [] r.op = "alt" -> FirstOnly(AltEnds(r.rs, 1, s, i), 1, <<>>)
      [] r.op = "rep" -> IF r.r.op = "set" THEN CharRunEnds(r, s, i)
                         ELSE FirstOnly(RepEnds(r, s, i, 0), 1, <<>>)

\* rs[k..] matched from each of the positions `from`, in order
CatEnds(rs, k, s, from) ==
    IF k > Len(rs) \/ from = <<>> THEN from
    ELSE IF Len(from) = 1 THEN CatEnds(rs, k + 1, s, Ends(rs[k], s, from[1]))
    ELSE CatEnds(rs, k + 1, s, FirstOnly(EachEnds(rs[k], s, from, 1, <<>>), 1, <<>>))

EachEnds(r, s, from, j, acc) ==
    IF j > Len(from) THEN acc
    ELSE EachEnds(r, s, from, j + 1, acc \o Ends(r, s, from[j]))

AltEnds(rs, k, s, i) ==
    IF k > Len(rs) THEN <<>>
    ELSE Ends(rs[k], s, i) \o AltEnds(rs, k + 1, s, i)

RECURSIVE RepMore(_, _, _, _, _, _)
\* r.r repeated: n repetitions are done and the match stands at position i
RepEnds(r, s, i, n) ==
    LET stop == IF n >= r.lo THEN <<i>> ELSE <<>>
        more == IF r.hi = Unbounded \/ n < r.hi
                THEN RepMore(r, s, i, Ends(r.r, s, i), 1, n)
                ELSE <<>>
    IN  IF r.greedy THEN more \o stop ELSE stop \o more

\* one more repetition, ending at each of es in turn (a repetition that
\* consumed nothing is not repeated)
RepMore(r, s, i, es, j, n) ==
    IF j > Len(es) THEN <<>>
    ELSE (IF es[j] > i THEN RepEnds(r, s, es[j], n + 1) ELSE <<>>)
         \o RepMore(r, s, i, es, j + 1, n)

\* A pattern given as its top-level parts (so that the groups' spans are
\* known): the end position of each part in the first successful match from
\* position i, or None.
RECURSIVE MatchParts(_, _, _, _)
RECURSIVE FirstOk(_, _, _, _, _, _)
MatchParts(ps, k, s, i) ==
    IF k > Len(ps) THEN Some(<<>>)
    ELSE LET es == Ends(ps[k], s, i)
         IN  FirstOk(es, 1, Len(es), ps, k, s)

\* the first of the ends es[lo..hi] of part k from which the parts after it
\* match, the left half of the range tried first
FirstOk(es, lo, hi, ps, k, s) ==
    IF lo > hi THEN None
    ELSE IF lo = hi
    THEN LET rest == MatchParts(ps, k + 1, s, es[lo])
         IN  IF rest # None THEN Some(<<es[lo]>> \o rest[1]) ELSE None
    ELSE LET mid == (lo + hi) \div 2
             left == FirstOk(es, lo, mid, ps, k, s)
         IN  IF left # None THEN left ELSE FirstOk(es, mid + 1, hi, ps, k, s)

\* The leftmost start in lo..hi at which the parts match, as [start, ends], or
\* None: the starts are tried from the left, the left half of the range first.
RECURSIVE SearchIn(_, _, _, _)
SearchIn(ps, s, lo, hi) ==
    IF lo > hi THEN None
    ELSE IF lo = hi
    THEN LET m == MatchParts(ps, 1, s, lo)
         IN  IF m # None THEN Some([start |-> lo, ends |-> m[1]]) ELSE None
    ELSE LET mid == (lo + hi) \div 2
             left == SearchIn(ps, s, lo, mid)
         IN  IF left # None THEN left ELSE SearchIn(ps, s, mid + 1, hi)

\* re.search from position `from` on
SearchFrom(ps, s, from) == SearchIn(ps, s, from, Len(s))

Search(ps, s) == SearchFrom(ps, s, 0)

\* match.group(0) and the span between two positions
Span(s, a, b) == SubSeq(s, a + 1, b)
Group0(s, m) == Span(s, m.start, m.ends[Len(m.ends)])

(***************************************************************************)
(* Pattern pieces shared by the salary patterns                            *)
(***************************************************************************)
D == AnyOf(Digit)
Ws == AnyOf(Space)
DashChar == AnyOf({"-", EnDash, EmDash})

\* \d{1,3}(?:,\d{3})*
GroupedDigits == Cat(<<Rep(D, 1, 3), Star(Cat(<<Ch(","), Rep(D, 3, 3)>>))>>)
\* (\d{1,3}(?:,\d{3})*(?:k)?)
Amount == Cat(<<GroupedDigits, Opt(Ch("k"))>>)
\* USD|EUR|RUB
CurrencyCode == Alt(<<Str("USD"), Str("EUR"), Str("RUB")>>)
\* per\s+year|/year|annually|USD|EUR|RUB
Qualifier ==
    Alt(<<Cat(<<Str("per"), Plus(Ws), Str("year")>>), Str("/year"), Str("annually"),
          Str("USD"), Str("EUR"), Str("RUB")>>)

(***************************************************************************)
(* Salary normalizer: analytics.parse_salary                               *)
(***************************************************************************)
\* the argument None
Null == <<"<None>">>

\* s[from+1..] starts with old
StartsWithAt(s, from, old) ==
    from + Len(old) <= Len(s) /\ \A j \in 1..Len(old) : s[from + j] = old[j]

RECURSIVE RemoveFrom(_, _, _)
\* str.replace(old, ''): the occurrences of old, left to right, not overlapping
RemoveFrom(s, old, from) ==
    IF from >= Len(s) THEN <<>>
    ELSE IF StartsWithAt(s, from, old) THEN RemoveFrom(s, old, from + Len(old))
    ELSE <<s[from + 1]>> \o RemoveFrom(s, old, from + 1)

Remove(s, old) == RemoveFrom(s, old, 0)

\* the least and the greatest of a non-empty set of positions
Least(S) == CHOOSE i \in S : \A j \in S : i <= j
Greatest(S) == CHOOSE i \in S : \A j \in S : i >= j
\* the k-th of a set of positions, counted from the left
Nth(S, k) == CHOOSE i \in S : Cardinality({j \in S : j < i}) = k - 1

\* str.strip(): without the whitespace before the first and after the last
\* character that is not whitespace
Strip(s) ==
    LET solid == {i \in 1..Len(s) : s[i] \notin Space}
    IN  IF solid = {} THEN <<>> ELSE SubSeq(s, Least(solid), Greatest(solid))

\* analytics.py lines 35-37
StripCurrency(salary_str) ==
    Strip(Remove(Remove(Remove(Remove(Remove(Remove(ToUpper(salary_str),
        Chars("Birr")), Chars("USD")), Chars("PER YEAR")), Chars("/YEAR")),
        Chars("ANNUALLY")), Chars("$")))

\* r'(\d{1,3}(?:,\d{3})*)\s*(k?)' as its parts: group 1, \s*, group 2
\* compiled under re.IGNORECASE (line 42)
SalaryTokenTwoDigits ==
    IgnoreCaseEach(<<Cat(<<Rep(D, 2, 3), Star(Cat(<<Ch(","), Rep(D, 3, 3)>>))>>), Star(Ws),
                     Opt(Ch("k"))>>)
SalaryTokenPattern == IgnoreCaseEach(<<GroupedDigits, Star(Ws), Opt(Ch("k"))>>)

RECURSIVE FindAllFrom(_, _, _)
\* re.findall: the matches left to right, each search starting where the
\* previous match ended (one further on after an empty match); each match is
\* the tuple of its groups 1 and 2
FindAllFrom(ps, s, from) ==
    LET f == SearchFrom(ps, s, from)
    IN  IF f = None THEN <<>>
        ELSE LET m == f[1]
                 e == m.ends[Len(m.ends)]
             IN  <<[num_str |-> Span(s, m.start, m.ends[1]),
                    k_suffix |-> Span(s, m.ends[2], m.ends[3])]>>
                 \o FindAllFrom(ps, s, IF e = m.start THEN e + 1 ELSE e)

DigitValue(c) == CHOOSE d \in 0..9 : Chars("0123456789")[d + 1] = c

RECURSIVE DecimalValue(_)
DecimalValue(ds) ==
    IF ds = <<>> THEN 0
    ELSE 10 * DecimalValue(SubSeq(ds, 1, Len(ds) - 1)) + DigitValue(ds[Len(ds)])

\* float(x): the value of a string of decimal digits; every other string of
\* the model's characters is a ValueError
IsFloatLiteral(x) == x # <<>> /\ \A j \in 1..Len(x) : x[j] \in Digit

\* analytics.py line 51: float(num_str.replace(',', ''))
FloatRaises(m) == ~IsFloatLiteral(Remove(m.num_str, <<",">>))

RECURSIVE TokenValues(_, _)
\* analytics.py lines 48-55
TokenValues(matches, j) ==
    IF j > Len(matches) THEN <<>>
    ELSE LET num == DecimalValue(Remove(matches[j].num_str, <<",">>))
         IN  <<IF ToLower(matches[j].k_suffix) = <<"k">> THEN num * 1000 ELSE num>>
             \o TokenValues(matches, j + 1)

RECURSIVE SumOf(_)
SumOf(values) == IF values = <<>> THEN 0 ELSE Head(values) + SumOf(Tail(values))

\* The mean sum(values) / len(values) is kept as the exact fraction
\* [sum, len]; two fractions are compared by cross-multiplication.
MeanOfFirstTwo(values) ==
    LET vs == SubSeq(values, 1, IF Len(values) > 2 THEN 2 ELSE Len(values))
    IN  [sum |-> SumOf(vs), len |-> Len(vs)]
MeanOf(values) == [sum |-> SumOf(values), len |-> Len(values)]

\* parse_salary: [raised, value], value None or Some(mean)
parse_salary(salary_str) ==
    IF salary_str = Null \/ salary_str = <<>> THEN [raised |-> "no", value |-> None]
    ELSE LET matches == FindAllFrom(SalaryTokenPattern, StripCurrency(salary_str), 0)
         IN  IF matches = <<>> THEN [raised |-> "no", value |-> None]
             ELSE IF \E j \in 1..Len(matches) : FloatRaises(matches[j])
                  THEN [raised |-> "ValueError", value |-> None]
             ELSE [raised |-> "no", value |-> Some(MeanOf(TokenValues(matches, 1)))]

(***************************************************************************)
(* Salary locator: extractor.extract_salary                                *)
(***************************************************************************)
\* the four patterns of extractor.py lines 63-72, each as its top-level parts
SalaryRangePattern ==
    <<Opt(Ch("$")), Star(Ws), Amount, Star(Ws), DashChar, Star(Ws), Opt(Ch("$")), Star(Ws),
      Amount, Star(Ws), Opt(Qualifier)>>
\* the second pattern without the currency codes among its qualifiers
SalaryQualifiedNoCurrency ==
    <<Opt(Ch("$")), Star(Ws), Amount, Star(Ws),
      Alt(<<Cat(<<Str("per"), Plus(Ws), Str("year")>>), Str("/year"), Str("annually")>>)>>
SalaryQualifiedPattern == <<Opt(Ch("$")), Star(Ws), Amount, Star(Ws), Qualifier>>
SalaryKRangePattern ==
    <<Cat(<<Rep(D, 1, 3), Ch("k")>>), Star(Ws), DashChar, Star(Ws), Cat(<<Rep(D, 1, 3), Ch("k")>>)>>
SalaryCurrencyPattern == <<Opt(Ch("$")), Star(Ws), Amount, Star(Ws), CurrencyCode>>

\* the patterns in list order; each is compiled under re.IGNORECASE (line 77)
SalaryPatternsSwapped ==
    <<IgnoreCaseEach(SalaryQualifiedPattern), IgnoreCaseEach(SalaryRangePattern),
      IgnoreCaseEach(SalaryKRangePattern), IgnoreCaseEach(SalaryCurrencyPattern)>>
SalaryPatterns ==
    <<IgnoreCaseEach(SalaryRangePattern), IgnoreCaseEach(SalaryQualifiedPattern),
      IgnoreCaseEach(SalaryKRangePattern), IgnoreCaseEach(SalaryCurrencyPattern)>>

RECURSIVE FirstPatternMatch(_, _, _)
\* extractor.py lines 76-83: the first pattern, in list order, that matches
\* anywhere in s; its match.group(0).strip()
FirstPatternMatch(patterns, k, s) ==
    IF k > Len(patterns) THEN None
    ELSE LET f == Search(patterns[k], s)
         IN  IF f # None THEN Some(Strip(Group0(s, f[1])))
             ELSE FirstPatternMatch(patterns, k + 1, s)

extract_salary(t) == FirstPatternMatch(SalaryPatterns, 1, ToUpper(t))

(***************************************************************************)
(* Skill matcher: extractor.extract_skills                                 *)
(***************************************************************************)
\* extractor.py lines 11-41, in list order
TECH_SKILLS ==
    <<Chars("Python"), Chars("JavaScript"), Chars("Java"), Chars("TypeScript"), Chars("C++"),
      Chars("C#"), Chars("Go"), Chars("Rust"),
      Chars("PHP"), Chars("Ruby"), Chars("Swift"), Chars("Kotlin"), Chars("Scala"), Chars("R"),
      Chars("Dart"), Chars("Perl"),
      Chars("React"), Chars("Vue"), Chars("Angular"), Chars("Django"), Chars("Flask"),
      Chars("FastAPI"), Chars("Express"),
      Chars("Next.js"), Chars("Nuxt"), Chars("Svelte"), Chars("Laravel"), Chars("Spring"),
      Chars("ASP.NET"),
      Chars("PostgreSQL"), Chars("MySQL"), Chars("MongoDB"), Chars("Redis"),
      Chars("Elasticsearch"), Chars("Cassandra"),
      Chars("SQLite"), Chars("DynamoDB"), Chars("Oracle"), Chars("SQL Server"),
      Chars("AWS"), Chars("Azure"), Chars("GCP"), Chars("Docker"), Chars("Kubernetes"),
      Chars("Terraform"), Chars("Ansible"),
      Chars("Jenkins"), Chars("GitLab CI"), Chars("GitHub Actions"), Chars("Linux"), Chars("Bash"),
      Chars("HTML"), Chars("CSS"), Chars("SASS"), Chars("LESS"), Chars("Webpack"), Chars("Vite"),
      Chars("npm"), Chars("yarn"),
      Chars("Machine Learning"), Chars("Deep Learning"), Chars("TensorFlow"), Chars("PyTorch"),
      Chars("Pandas"),
      Chars("NumPy"), Chars("Scikit-learn"), Chars("Jupyter"), Chars("Data Science"),
      Chars("React Native"), Chars("Flutter"), Chars("iOS"), Chars("Android"), Chars("Xamarin"),
      Chars("Git"), Chars("GitHub"), Chars("GitLab"), Chars("Jira"), Chars("Agile"), Chars("Scrum"),
      Chars("REST API"),
      Chars("GraphQL"), Chars("Microservices"), Chars("Node.js"), Chars("npm"), Chars("yarn")>>

RECURSIVE Literal(_)
\* re.escape(x): the characters of x, each standing for itself
Literal(x) == IF x = <<>> THEN <<>> ELSE <<Ch(Head(x))>> \o Literal(Tail(x))

\* line 105: r'\b' + re.escape(skill_upper) + r'\b'
SkillPattern(skill) == <<WordBoundary, Cat(Literal(ToUpper(skill))), WordBoundary>>

RECURSIVE SkillPatternsFrom(_)
SkillPatternsFrom(k) ==
    IF k > Len(TECH_SKILLS) THEN <<>>
    ELSE <<SkillPattern(TECH_SKILLS[k])>> \o SkillPatternsFrom(k + 1)
\* the pattern of each vocabulary entry
SkillPatterns == SkillPatternsFrom(1)

\* lines 96-109
extract_skills(t) ==
    LET text_upper == ToUpper(t)
    IN  {TECH_SKILLS[k] : k \in {j \in 1..Len(TECH_SKILLS) : Search(SkillPatterns[j], text_upper) # None}}

\* line 96, were found_skills kept from call to call
KeepFound(found) == found
\* line 96: found_skills = set(), whatever an earlier call found
FreshSet(found) == {}

\* lines 96-109 as a step: the vocabulary read is the module-level list as it
\* is at the call, and `found` is what the name found_skills held before
extract_skills_step(vocab, found, t) ==
    LET text_upper == ToUpper(t)
    IN  FreshSet(found) \cup
        {vocab[k] : k \in {j \in 1..Len(vocab) : Search(SkillPattern(vocab[j]), text_upper) # None}}

(***************************************************************************)
(* Title inferencer: extractor.extract_job_title                           *)
(***************************************************************************)
\* ([A-Z][a-zA-Z\s]{10,50}?)
TitleGroup == Cat(<<AnyOf(Upper), LazyRep(AnyOf(Letter \cup Space), 10, 50)>>)

\* line 130, as its parts: the cue, :?, \s+, group 1, the terminator
CuePattern ==
    IgnoreCaseEach(
        <<Alt(<<Cat(<<Str("looking"), Plus(Ws), Str("for")>>), Str("hiring"), Str("seeking"),
                Str("vacancy"), Str("position"), Str("role")>>),
          Opt(Ch(":")), Plus(Ws), TitleGroup,
          Alt(<<Cat(<<Plus(Ws), Str("with")>>), Cat(<<Plus(Ws), Str("for")>>), Ch("."),
                EndAnchor>>)>>)

\* line 131, as its parts: the cue, :?, \s+, group 1, the role word
NeedPatternAsCuePattern ==
    IgnoreCaseEach(
        <<Alt(<<Cat(<<Str("we"), Plus(Ws), Str("need")>>), Str("need"), Str("required")>>),
          Opt(Ch(":")), Plus(Ws), TitleGroup,
          Alt(<<Cat(<<Plus(Ws), Str("with")>>), Cat(<<Plus(Ws), Str("for")>>), Ch("."),
                EndAnchor>>)>>)
NeedPattern ==
    IgnoreCaseEach(
        <<Alt(<<Cat(<<Str("we"), Plus(Ws), Str("need")>>), Str("need"), Str("required")>>),
          Opt(Ch(":")), Plus(Ws), TitleGroup,
          Alt(<<Cat(<<Plus(Ws), Str("developer")>>), Cat(<<Plus(Ws), Str("engineer")>>),
                Cat(<<Plus(Ws), Str("specialist")>>)>>)>>)

TitlePatterns == <<CuePattern, NeedPattern>>

\* line 140: r'^(a|an|the)\s+' under re.IGNORECASE
ArticlePattern == IgnoreCaseEach(<<Alt(<<Str("a"), Str("an"), Str("the")>>), Plus(Ws)>>)

\* re.sub(r'^(a|an|the)\s+', '', title)
StripArticle(t) ==
    LET m == MatchParts(ArticlePattern, 1, t, 0)
    IN  IF m = None THEN t ELSE SubSeq(t, m[1][Len(m[1])] + 1, Len(t))

RECURSIVE ExplicitTitleFrom(_, _)
\* lines 135-142: the first pattern whose match gives a title of 6 to 99
\* characters
ExplicitTitleFrom(t, k) ==
    IF k > Len(TitlePatterns) THEN None
    ELSE LET f == Search(TitlePatterns[k], t)
             cleaned == StripArticle(Strip(Span(t, f[1].ends[3], f[1].ends[4])))
         IN  IF f # None /\ Len(cleaned) > 5 /\ Len(cleaned) < 100 THEN Some(cleaned)
             ELSE ExplicitTitleFrom(t, k + 1)

ExplicitTitle(t) == ExplicitTitleFrom(t, 1)

\* str.split(sep) for a one-character sep: the pieces between the separators
SplitOn(s, sep) ==
    LET cuts == {i \in 1..Len(s) : s[i] = sep}
        n == Cardinality(cuts) + 1
    IN  <<>> \o [k \in 1..n |->
                    SubSeq(s, IF k = 1 THEN 1 ELSE Nth(cuts, k - 1) + 1,
                              IF k = n THEN Len(s) ELSE Nth(cuts, k) - 1)]

\* str.split(): the runs of characters between whitespace
SplitWords(s) ==
    LET starts == {i \in 1..Len(s) : s[i] \notin Space /\ (i = 1 \/ s[i - 1] \in Space)}
        stops == {i \in 1..Len(s) : s[i] \notin Space /\ (i = Len(s) \/ s[i + 1] \in Space)}
    IN  <<>> \o [k \in 1..Cardinality(starts) |-> SubSeq(s, Nth(starts, k), Nth(stops, k))]

RECURSIVE JoinWith(_, _)
\* sep.join(words)
JoinWith(words, sep) ==
    IF words = <<>> THEN <<>>
    ELSE IF Len(words) = 1 THEN Head(words)
    ELSE Head(words) \o sep \o JoinWith(Tail(words), sep)

\* s[:n]
Take(s, n) == SubSeq(s, 1, IF Len(s) < n THEN Len(s) ELSE n)

\* lines 146-149
common_titles ==
    <<Chars("Developer"), Chars("Engineer"), Chars("Programmer"), Chars("Architect"),
      Chars("Designer"), Chars("Analyst"), Chars("Scientist"), Chars("Manager"), Chars("Lead"),
      Chars("Senior"), Chars("Junior")>>

\* t occurs in s in any letter case
ContainsAnyCase(s, t) == \E from \in 0..Len(s) : StartsWithAt(ToLower(s), from, ToLower(t))

\* t occurs in s as a contiguous run of characters: t in s
Contains(s, t) == \E from \in 0..Len(s) : StartsWithAt(s, from, t)

RECURSIVE FallbackTitleFrom(_, _)
\* lines 151-159
FallbackTitleFrom(lines, j) ==
    IF j > Len(lines) THEN None
    ELSE LET line_clean == Strip(lines[j])
             words == Take(SplitWords(line_clean), 5)
             potential_title == JoinWith(words, <<" ">>)
         IN  IF /\ \E w \in 1..Len(common_titles) : Contains(line_clean, common_titles[w])
                /\ Len(words) >= 2
                /\ Len(potential_title) < 100
             THEN Some(potential_title)
             ELSE FallbackTitleFrom(lines, j + 1)

\* the fallback, were it to scan six lines
FallbackTitleSixLines(t) == FallbackTitleFrom(Take(SplitOn(t, "\n"), 6), 1)

\* lines 145-159
FallbackTitle(t) == FallbackTitleFrom(Take(SplitOn(t, "\n"), 5), 1)

\* extract_job_title, with the phase that returned: "explicit" (line 142),
\* "fallback" (line 159) or "none" (line 161)
InferTitle(t) ==
    LET explicit == ExplicitTitle(t)
        fallback == FallbackTitle(t)
    IN  IF explicit # None THEN [title |-> explicit, phase |-> "explicit"]
        ELSE IF fallback # None THEN [title |-> fallback, phase |-> "fallback"]
        ELSE [title |-> None, phase |-> "none"]

extract_job_title(t) == InferTitle(t).title

(***************************************************************************)
(* Salary strings as they are written                                      *)
(***************************************************************************)
DigitChar(d) == Chars("0123456789")[d + 1]

RECURSIVE FormatPlain(_)
\* n in decimal, no thousands separators: 50000
FormatPlain(n) ==
    IF n < 10 THEN <<DigitChar(n)>> ELSE FormatPlain(n \div 10) \o <<DigitChar(n % 10)>>

RECURSIVE FormatGrouped(_)
\* n in decimal, comma grouped: 50,000
FormatGrouped(n) ==
    IF n < 1000 THEN FormatPlain(n)
    ELSE FormatGrouped(n \div 1000)
         \o <<",", DigitChar((n \div 100) % 10), DigitChar((n \div 10) % 10), DigitChar(n % 10)>>

\* the most pieces a salary string is written in
MaxParts == 5

\* the pieces a salary string is written with
AmountPart(n, grouped) ==
    [kind |-> "amount", val |-> n, grouped |-> grouped,
     chars |-> IF grouped THEN FormatGrouped(n) ELSE FormatPlain(n)]
KPart(c) == [kind |-> "k", val |-> 0, grouped |-> TRUE, chars |-> <<c>>]
SepPart(sep) == [kind |-> "sep", val |-> 0, grouped |-> TRUE, chars |-> sep]
QualPart(q) == [kind |-> "qual", val |-> 0, grouped |-> TRUE, chars |-> q]
DollarPart == [kind |-> "dollar", val |-> 0, grouped |-> TRUE, chars |-> <<"$">>]

Amounts == {50, 1400}
KSuffixes == {"k", "K"}
Separators == {Chars("-"), <<" ", EnDash, " ">>}
Qualifiers == {Chars(" USD"), Chars(" per year")}

RECURSIVE Written(_)
\* the string a sequence of pieces spells
Written(ps) == IF ps = <<>> THEN <<>> ELSE Head(ps).chars \o Written(Tail(ps))

\* the salary strings of parse_salary's docstring and of test_parse_salary
DocumentedSalaries ==
    {<<AmountPart(55000, TRUE), SepPart(Chars(" - ")), AmountPart(70000, TRUE)>>,
     <<AmountPart(1400, TRUE), QualPart(Chars(" USD"))>>,
     <<AmountPart(50, TRUE), KPart("k"), SepPart(Chars("-")), AmountPart(80, TRUE), KPart("k")>>,
     <<AmountPart(100, TRUE), KPart("k")>>,
     <<AmountPart(20000, TRUE), SepPart(<<" ", EnDash, " ">>), AmountPart(40000, TRUE)>>,
     <<AmountPart(80000, TRUE), SepPart(<<" ", EnDash, " ">>), AmountPart(120000, TRUE)>>}

\* the ranges without comma grouping that the comment of analytics.py line 39
\* and the docstring of extract_salary (extractor.py line 51) name
UngroupedSalaries ==
    {<<AmountPart(50000, FALSE)>>,
     <<AmountPart(50000, FALSE), SepPart(Chars("-")), AmountPart(80000, FALSE)>>}

\* a qualified single amount followed by a range
QualifiedThenRange ==
    <<AmountPart(100, TRUE), KPart("k"), QualPart(Chars(" USD")), SepPart(Chars(", ")),
      AmountPart(50, TRUE), SepPart(Chars("-")), AmountPart(80, TRUE)>>

LastKind == IF parts = <<>> THEN "start" ELSE parts[Len(parts)].kind

TypeUpTo(max, part) ==
    /\ pc = "input"
    /\ Len(parts) < max
    /\ text' = text \o part.chars
    /\ parts' = Append(parts, part)
    /\ UNCHANGED <<pc, salary_value, salary_text, found_skills, title>>
    /\ VocabularyUntouched /\ StorageUntouched

Type(part) == TypeUpTo(MaxParts, part)

\* an amount, at the start or after a separator or "$"; the amounts of four
\* digits and more of one string are all comma grouped or all plain
TypeAmount(n, grouped) ==
    /\ LastKind \in {"start", "sep", "dollar"}
    /\ n < 1000 => grouped
    /\ n >= 1000 =>
          \A j \in 1..Len(parts) :
              (parts[j].kind = "amount" /\ parts[j].val >= 1000) => parts[j].grouped = grouped
    /\ Type(AmountPart(n, grouped))

TypeK(c) == LastKind = "amount" /\ Type(KPart(c))

TypeSeparator(sep) == LastKind \in {"amount", "k", "qual"} /\ Type(SepPart(sep))

TypeQualifier(q) == LastKind \in {"amount", "k"} /\ Type(QualPart(q))

TypeDollar == LastKind \in {"start", "sep"} /\ Type(DollarPart)

CallParseSalary ==
    /\ pc = "input"
    /\ salary_value' = parse_salary(text)
    /\ pc' = "parsed"
    /\ UNCHANGED <<text, parts, salary_text, found_skills, title>>
    /\ VocabularyUntouched /\ StorageUntouched

CallExtractSalary ==
    /\ pc = "input"
    /\ salary_text' = extract_salary(text)
    /\ pc' = "located"
    /\ UNCHANGED <<text, parts, salary_value, found_skills, title>>
    /\ VocabularyUntouched /\ StorageUntouched

NotCalled ==
    /\ pc = "input"
    /\ salary_value = [raised |-> "no", value |-> None]
    /\ salary_text = None
    /\ found_skills = {}
    /\ title = None
    /\ vocabulary = TECH_SKILLS
    /\ extracted = <<>>
    /\ job_posts = <<>>
    /\ skills = <<>>
    /\ now = 0
    /\ limit = 0
    /\ all_skills = <<>>
    /\ result = <<>>
    /\ skill_name = <<>>
    /\ messages = <<>>
    /\ position = 0
    /\ saved_count = 0
    /\ session = "none"
    /\ returned = None
    /\ posts_before = 0

InitSalary ==
    /\ parts \in {<<>>, QualifiedThenRange} \cup DocumentedSalaries \cup UngroupedSalaries
    /\ text = Written(parts)
    /\ NotCalled

NextSalary ==
    \/ \E n \in Amounts, grouped \in BOOLEAN : TypeAmount(n, grouped)
    \/ \E c \in KSuffixes : TypeK(c)
    \/ \E sep \in Separators : TypeSeparator(sep)
    \/ \E q \in Qualifiers : TypeQualifier(q)
    \/ TypeDollar
    \/ CallParseSalary
    \/ CallExtractSalary

SpecSalary == InitSalary /\ [][NextSalary]_vars

(***************************************************************************)
(* Arbitrary short strings and the null argument                           *)
(***************************************************************************)
\* the longest arbitrary string, and the characters it is made of
MaxChars == 4
RawChars == {"7", "0", ",", "k", " ", "-", "x"}

TypeChar(c) ==
    /\ pc = "input"
    /\ Len(text) < MaxChars
    /\ text' = Append(text, c)
    /\ UNCHANGED <<parts, pc, salary_value, salary_text, found_skills, title>>
    /\ VocabularyUntouched /\ StorageUntouched

CallParseSalaryNull ==
    /\ pc = "input"
    /\ text = <<>>
    /\ salary_value' = parse_salary(Null)
    /\ pc' = "parsed_null"
    /\ UNCHANGED <<text, parts, salary_text, found_skills, title>>
    /\ VocabularyUntouched /\ StorageUntouched

InitRaw == text = <<>> /\ parts = <<>> /\ NotCalled

NextRaw ==
    \/ \E c \in RawChars : TypeChar(c)
    \/ CallParseSalary
    \/ CallParseSalaryNull

SpecRaw == InitRaw /\ [][NextRaw]_vars

(***************************************************************************)
(* Posting texts that name skills                                          *)
(***************************************************************************)
\* the most pieces such a text is written in
MaxSkillParts == 3

\* a vocabulary entry, as the vocabulary spells it or in lower case
SkillPart(k, lower) ==
    [kind |-> "skill", val |-> k, grouped |-> lower,
     chars |-> IF lower THEN ToLower(TECH_SKILLS[k]) ELSE TECH_SKILLS[k]]
\* whitespace and punctuation, with or without words in between
DelimPart(chars) == [kind |-> "delim", val |-> 0, grouped |-> TRUE, chars |-> chars]
\* letters, digits or "_" written next to an entry, making a longer word
GluePart(chars) == [kind |-> "glue", val |-> 0, grouped |-> TRUE, chars |-> chars]

\* the position of an entry in the vocabulary
SkillIndex(name) == CHOOSE k \in 1..Len(TECH_SKILLS) : TECH_SKILLS[k] = Chars(name)

WrittenSkills ==
    {SkillIndex("Go"), SkillIndex("Java"), SkillIndex("Git"), SkillIndex("C++"), SkillIndex("C#"),
     SkillIndex("React Native")}
Delimiters == {Chars(" "), Chars(", ")}
Glues == {Chars("lang"), Chars("Script"), Chars("Hub"), Chars("7")}

\* the text of check_data_extraction (test_day1.py line 207)
DocumentedPosting ==
    <<DelimPart(Chars("Looking for a ")), SkillPart(SkillIndex("Python"), FALSE),
      DelimPart(Chars(" developer with ")), SkillPart(SkillIndex("React"), FALSE),
      DelimPart(Chars(" and ")), SkillPart(SkillIndex("Django"), FALSE),
      DelimPart(Chars(" experience"))>>

TypeSkill(k, lower) ==
    /\ LastKind \in {"start", "delim", "glue"}
    /\ TypeUpTo(MaxSkillParts, SkillPart(k, lower))

TypeDelimiter(chars) ==
    /\ LastKind \in {"start", "skill", "glue"}
    /\ TypeUpTo(MaxSkillParts, DelimPart(chars))

TypeGlue(chars) ==
    /\ LastKind \in {"start", "skill", "delim"}
    /\ TypeUpTo(MaxSkillParts, GluePart(chars))

CallExtractSkills ==
    /\ pc = "input"
    /\ found_skills' = extract_skills(text)
    /\ pc' = "matched"
    /\ UNCHANGED <<text, parts, salary_value, salary_text, title>>
    /\ VocabularyUntouched /\ StorageUntouched

InitSkills ==
    /\ parts \in {<<>>, DocumentedPosting}
    /\ text = Written(parts)
    /\ NotCalled

NextSkills ==
    \/ \E k \in WrittenSkills, lower \in BOOLEAN : TypeSkill(k, lower)
    \/ \E chars \in Delimiters : TypeDelimiter(chars)
    \/ \E chars \in Glues : TypeGlue(chars)
    \/ CallExtractSkills

SpecSkills == InitSkills /\ [][NextSkills]_vars

(***************************************************************************)
(* Posting texts that announce a title after a cue                         *)
(***************************************************************************)
\* the most pieces such a text is written in
MaxTitleParts == 4

\* a cue of pattern `rule` (1: line 130, 2: line 131), with or without a
\* colon, and the space after it
CuePart(cue, rule, colon) ==
    [kind |-> "cue", val |-> rule, grouped |-> colon,
     chars |-> cue \o (IF colon THEN <<":">> ELSE <<>>) \o <<" ">>]
\* a word of the phrase, after a single space unless it is the first
WordPart(word, first) ==
    [kind |-> "word", val |-> 0, grouped |-> first,
     chars |-> IF first THEN word ELSE <<" ">> \o word]
\* what comes after the phrase
EndPart(chars) == [kind |-> "end", val |-> 0, grouped |-> TRUE, chars |-> chars]

Cues ==
    {<<Chars("Hiring"), 1>>, <<Chars("looking for"), 1>>,
     <<Chars("We need"), 2>>, <<Chars("required"), 2>>}
Articles == {Chars("The")}
PhraseWords == {Chars("Senior"), Chars("Experienced"), Chars("Forklift"), Chars("Developer")}
PhraseEnds == {Chars("."), Chars(" with Go")}

\* the text of check_data_extraction (test_day1.py line 217)
DocumentedTitlePosting ==
    <<CuePart(Chars("Hiring"), 1, TRUE), WordPart(Chars("Senior"), TRUE),
      WordPart(Chars("Backend"), FALSE), WordPart(Chars("Developer"), FALSE)>>

\* the same title asked for with "We need", as a sentence
NeedSentence ==
    <<CuePart(Chars("We need"), 2, FALSE), WordPart(Chars("Senior"), TRUE),
      WordPart(Chars("Backend"), FALSE), WordPart(Chars("Developer"), FALSE),
      EndPart(Chars("."))>>

TypeCue(cue, colon) ==
    /\ LastKind = "start"
    /\ TypeUpTo(MaxTitleParts, CuePart(cue[1], cue[2], colon))
    /\ UNCHANGED <<pc, salary_value, salary_text, found_skills, title>>
    /\ VocabularyUntouched /\ StorageUntouched

TypeWord(word) ==
    /\ LastKind \in {"cue", "word"}
    /\ word \in Articles => LastKind = "cue"
    /\ TypeUpTo(MaxTitleParts, WordPart(word, LastKind = "cue"))
    /\ UNCHANGED <<pc, salary_value, salary_text, found_skills, title>>
    /\ VocabularyUntouched /\ StorageUntouched

TypeEnd(chars) ==
    /\ LastKind = "word"
    /\ TypeUpTo(MaxTitleParts, EndPart(chars))
    /\ UNCHANGED <<pc, salary_value, salary_text, found_skills, title>>
    /\ VocabularyUntouched /\ StorageUntouched

\* title = extract_job_title(text); pc records the return statement reached
CallExtractJobTitle ==
    /\ pc = "input"
    /\ LET r == InferTitle(text)
       IN  /\ title' = r.title
           /\ pc' = CASE r.phase = "explicit" -> "title_explicit"
                      [] r.phase = "fallback" -> "title_fallback"
                      [] OTHER -> "title_none"
    /\ UNCHANGED <<text, parts, salary_value, salary_text, found_skills>>
    /\ VocabularyUntouched /\ StorageUntouched

InitTitle ==
    /\ parts \in {<<>>, DocumentedTitlePosting, NeedSentence}
    /\ text = Written(parts)
    /\ NotCalled

NextTitle ==
    \/ \E cue \in Cues, colon \in BOOLEAN : TypeCue(cue, colon)
    \/ \E word \in Articles \cup PhraseWords : TypeWord(word)
    \/ \E chars \in PhraseEnds : TypeEnd(chars)
    \/ CallExtractJobTitle

SpecTitle == InitTitle /\ [][NextTitle]_vars

(***************************************************************************)
(* Posting texts with a phrase of a given length after a cue               *)
(***************************************************************************)
\* the most letters the phrase is written with
MaxPhraseLen == 53

\* one letter of the phrase
LetterPart(c) == [kind |-> "letter", val |-> 0, grouped |-> TRUE, chars |-> <<c>>]

FirstLetters == {"S", "s"}
PhraseCues == {<<Chars("Hiring"), 1>>, <<Chars("looking for"), 1>>}

\* 'hiring: senior backend developer'
LowercasePosting ==
    <<CuePart(Chars("hiring"), 1, TRUE), WordPart(Chars("senior"), TRUE),
      WordPart(Chars("backend"), FALSE), WordPart(Chars("developer"), FALSE)>>

TypeFirstLetter(c) ==
    /\ LastKind = "cue"
    /\ TypeUpTo(MaxPhraseLen + 1, LetterPart(c))

TypeLetter ==
    /\ LastKind = "letter"
    /\ TypeUpTo(MaxPhraseLen + 1, LetterPart("a"))

TypePeriod ==
    /\ LastKind = "letter"
    /\ TypeUpTo(MaxPhraseLen + 2, EndPart(Chars(".")))

InitPhrase ==
    /\ parts \in {<<>>, LowercasePosting}
    /\ text = Written(parts)
    /\ NotCalled

NextPhrase ==
    \/ \E cue \in PhraseCues, colon \in BOOLEAN : TypeCue(cue, colon)
    \/ \E c \in FirstLetters : TypeFirstLetter(c)
    \/ TypeLetter
    \/ TypePeriod
    \/ CallExtractJobTitle

SpecPhrase == InitPhrase /\ [][NextPhrase]_vars

(***************************************************************************)
(* Posting texts of several lines without a cue                            *)
(***************************************************************************)
\* the most lines of a text, and the most of them that are not the filler line
MaxLines == 6
MaxTitleLines == 2

\* the lines a text is written with: the line as written, its
\* whitespace-separated tokens, and whether one of common_titles occurs in it
FillerLine ==
    [chars |-> Chars("We build software"),
     tokens |-> <<Chars("We"), Chars("build"), Chars("software")>>, indicator |-> FALSE]
LineKinds ==
    <<FillerLine,
      [chars |-> Chars("Senior"), tokens |-> <<Chars("Senior")>>, indicator |-> TRUE],
      [chars |-> Chars("Backend Developer"),
       tokens |-> <<Chars("Backend"), Chars("Developer")>>, indicator |-> TRUE],
      [chars |-> <<" ">> \o Chars("Junior  Data") \o <<"\t">> \o Chars("Analyst wanted  in Addis Ababa "),
       tokens |-> <<Chars("Junior"), Chars("Data"), Chars("Analyst"), Chars("wanted"), Chars("in"),
                    Chars("Addis"), Chars("Ababa")>>,
       indicator |-> TRUE],
      [chars |-> Chars("SeniorSeniorSeniorSenior LeadLeadLeadLeadLeadLead ")
                 \o Chars("ManagerManagerManager AnalystAnalystAnalyst ")
                 \o Chars("DesignerDesignerDesigner"),
       tokens |-> <<Chars("SeniorSeniorSeniorSenior"), Chars("LeadLeadLeadLeadLeadLead"),
                    Chars("ManagerManagerManager"), Chars("AnalystAnalystAnalyst"),
                    Chars("DesignerDesignerDesigner")>>,
       indicator |-> TRUE]>>
\* the kinds of line that are typed; the last kind is only in LongLinePosting
TypedLineKinds == 1..4

\* line k of LineKinds, after a line break unless it is the first line
LinePart(k, first) ==
    [kind |-> "line", val |-> k, grouped |-> first,
     chars |-> IF first THEN LineKinds[k].chars ELSE <<"\n">> \o LineKinds[k].chars]

\* a line whose first five tokens make 100 characters or more, and a title line
LongLinePosting == <<LinePart(5, TRUE), LinePart(3, FALSE)>>

TypeLine(k) ==
    /\ LastKind \in {"start", "line"}
    /\ k # 1 => Cardinality({j \in 1..Len(parts) : parts[j].val # 1}) < MaxTitleLines
    /\ TypeUpTo(MaxLines, LinePart(k, LastKind = "start"))

InitLines ==
    /\ parts \in {<<>>, LongLinePosting}
    /\ text = Written(parts)
    /\ NotCalled

NextLines ==
    \/ \E k \in TypedLineKinds : TypeLine(k)
    \/ CallExtractJobTitle

SpecLines == InitLines /\ [][NextLines]_vars

(***************************************************************************)
(* Posting texts put together from fragments, with or without a cue        *)
(***************************************************************************)
\* the most fragments of such a text
MaxFragments == 4

FragmentPart(chars) == [kind |-> "fragment", val |-> 0, grouped |-> TRUE, chars |-> chars]

\* a cue, a title-indicating word, and fragments that are neither
Fragments ==
    {Chars("hiring"), Chars("Lead"), Chars("senior staff"), Chars("Experienced Operators"),
     Chars(": "), <<"\n">>}

TypeFragment(chars) ==
    /\ LastKind \in {"start", "fragment"}
    /\ TypeUpTo(MaxFragments, FragmentPart(chars))

InitFragments == text = <<>> /\ parts = <<>> /\ NotCalled

NextFragments ==
    \/ \E chars \in Fragments : TypeFragment(chars)
    \/ CallExtractJobTitle

SpecFragments == InitFragments /\ [][NextFragments]_vars

(***************************************************************************)
(* The collector's loop: the three extractions on message after message    *)
(* (collector.py lines 111-121)                                            *)
(***************************************************************************)
\* the most extraction calls in a run
MaxCalls == 3

\* message texts
Messages ==
    {Chars("Hiring: Senior Go Dev, 50-80k"), Chars("need React and C++11 for 1,400 USD")}

\* line 116: raw_text = message.text, for the next message of the channel
NextMessage(t) ==
    /\ pc = "input"
    /\ t # text
    /\ text' = t
    /\ UNCHANGED <<parts, pc, salary_value, salary_text, found_skills, title>>
    /\ VocabularyUntouched /\ StorageUntouched

\* what a call returned, for the record
Extracted(of, value) == Append(extracted, [text |-> text, of |-> of, value |-> value])

\* line 119
ExtractSalary ==
    /\ pc = "input" /\ Len(extracted) < MaxCalls
    /\ salary_text' = extract_salary(text)
    /\ extracted' = Extracted("salary", salary_text')
    /\ UNCHANGED <<text, parts, pc, salary_value, found_skills, title, vocabulary>>
    /\ StorageUntouched

\* line 120
ExtractSkills ==
    /\ pc = "input" /\ Len(extracted) < MaxCalls
    /\ found_skills' = extract_skills_step(vocabulary, found_skills, text)
    /\ extracted' = Extracted("skills", found_skills')
    /\ UNCHANGED <<text, parts, pc, salary_value, salary_text, title, vocabulary>>
    /\ StorageUntouched

\* line 121
ExtractJobTitle ==
    /\ pc = "input" /\ Len(extracted) < MaxCalls
    /\ title' = extract_job_title(text)
    /\ extracted' = Extracted("title", title')
    /\ UNCHANGED <<text, parts, pc, salary_value, salary_text, found_skills, vocabulary>>
    /\ StorageUntouched

InitCollect ==
    /\ text \in Messages
    /\ parts = <<>>
    /\ NotCalled

NextCollect ==
    \/ \E t \in Messages : NextMessage(t)
    \/ ExtractSalary
    \/ ExtractSkills
    \/ ExtractJobTitle

SpecCollect == InitCollect /\ [][NextCollect]_vars

(***************************************************************************)
(* Storage (models.py) and the writer collector.save_job_post              *)
(*                                                                         *)
(* skills is the table of skills, a skill's id being its place in it;      *)
(* job_posts is the table of job posts, each with its salary text, its     *)
(* posted_date (in hours) and the ids of the skills linked to it.          *)
(***************************************************************************)
\* the id of the skill of that name, or 0
SkillId(table, name) ==
    IF \E id \in 1..Len(table) : table[id] = name
    THEN CHOOSE id \in 1..Len(table) : table[id] = name
    ELSE 0

\* collector.get_or_create_skill, for each name of a set in turn: the table
\* with the names it lacks added (in any order)
RECURSIVE WithSkills(_, _)
WithSkills(table, names) ==
    IF names = {} THEN {table}
    ELSE UNION {WithSkills(IF SkillId(table, name) = 0 THEN Append(table, name) ELSE table,
                           names \ {name}) : name \in names}

\* collector.save_job_post
SaveJobPost(raw_text, posted_date, job_title, salary, skill_names) ==
    /\ pc = "input"
    /\ \E table \in WithSkills(skills, skill_names) :
           /\ skills' = table
           /\ job_posts' = Append(job_posts,
                                  [raw_text |-> raw_text, job_title |-> job_title,
                                   salary |-> salary, posted_date |-> posted_date,
                                   skills |-> {SkillId(table, name) : name \in skill_names}])
    /\ UNCHANGED <<text, parts, pc, salary_value, salary_text, found_skills, title>>
    /\ UNCHANGED <<now, limit, all_skills, result, skill_name>>
    /\ VocabularyUntouched /\ CollectorUntouched

\* collector.get_or_create_skill called on its own: the skill whose name is
\* exactly skill_name (Skill.name == skill_name, which SQLite compares byte by
\* byte), or a new row with that name; the Skill returned is the result
get_or_create_skill(name) ==
    /\ pc = "input"
    /\ skill_name' = name
    /\ skills' = IF SkillId(skills, name) = 0 THEN Append(skills, name) ELSE skills
    /\ result' = Some([id |-> SkillId(skills', name), name |-> name])
    /\ UNCHANGED <<text, parts, pc, salary_value, salary_text, found_skills, title>>
    /\ UNCHANGED <<job_posts, now, limit, all_skills>>
    /\ VocabularyUntouched /\ CollectorUntouched

(***************************************************************************)
(* collector.collect_from_channel: one run after another over the stored   *)
(* posts. job_posts and skills are what the database holds committed       *)
(* between two steps; what a step flushed and did not commit is kept       *)
(* inside the step.                                                        *)
(***************************************************************************)
\* lines 119-124: what the three extractors give for raw_text
ExtractedFrom(raw_text) ==
    [salary |-> extract_salary(raw_text),
     skills |-> extract_skills(raw_text),
     job_title |-> extract_job_title(raw_text)]

\* lines 128-131: a stored post with that raw_text and that posted_date
ExistingNever(posts, raw_text, posted_date) == FALSE
Existing(posts, raw_text, posted_date) ==
    \E p \in 1..Len(posts) :
        posts[p].raw_text = raw_text /\ posts[p].posted_date = posted_date

\* db.rollback(): the session is back at what is committed
RolledBack(committed, flushed) == committed

\* save_job_post up to its flushes, lines 65-79: the post added and, skill by
\* skill, the rows of the skills it lacks added and linked
Flushed(committed, message, from) ==
    {[job_posts |-> Append(committed.job_posts,
                           [raw_text |-> message.text, job_title |-> from.job_title,
                            salary |-> from.salary, posted_date |-> message.date,
                            skills |-> {SkillId(table, name) : name \in from.skills}]),
      skills |-> table] : table \in WithSkills(committed.skills, from.skills)}

\* where a statement of the loop body can raise: the duplicate query, a flush
\* of save_job_post, its commit, its refresh after the commit
FailurePoints == {"query", "flush", "commit", "refresh"}

\* lines 100-107: a session is opened and the messages are fetched
StartRun(batch, most) ==
    /\ pc = "input" /\ session # "open"
    /\ Len(job_posts) < most
    /\ session' = "open"
    /\ messages' = batch
    /\ position' = 0
    /\ saved_count' = 0
    /\ returned' = None
    /\ posts_before' = Len(job_posts)
    /\ UNCHANGED <<text, parts, pc, salary_value, salary_text, found_skills, title>>
    /\ UNCHANGED <<job_posts, skills, now, limit, all_skills, result, skill_name>>
    /\ VocabularyUntouched

\* lines 151-157: the handler of an exception, then the finally clause and
\* the return
Interrupted(committed, flushed) ==
    /\ job_posts' = RolledBack(committed, flushed).job_posts
    /\ skills' = RolledBack(committed, flushed).skills
    /\ session' = "closed"
    /\ returned' = Some(saved_count)
    /\ UNCHANGED <<position, saved_count>>

\* line 107 raises: nothing was fetched
FetchInterrupted ==
    /\ pc = "input" /\ session = "open"
    /\ position = 0 /\ saved_count = 0
    /\ messages' = <<>>
    /\ Interrupted([job_posts |-> job_posts, skills |-> skills],
                   [job_posts |-> job_posts, skills |-> skills])
    /\ UNCHANGED posts_before
    /\ UNCHANGED <<text, parts, pc, salary_value, salary_text, found_skills, title>>
    /\ UNCHANGED <<now, limit, all_skills, result, skill_name>>
    /\ VocabularyUntouched

\* lines 111-146, the loop body for the next message: a message without text
\* is passed over
SkipMessage(message) ==
    /\ message.text = <<>> \/ Strip(message.text) = <<>>
    /\ position' = position + 1
    /\ UNCHANGED <<job_posts, skills, saved_count, session, returned>>

\* ... a message already stored is passed over
SkipDuplicate(message) ==
    /\ Strip(message.text) # <<>>
    /\ Existing(job_posts, message.text, message.date)
    /\ position' = position + 1
    /\ UNCHANGED <<job_posts, skills, saved_count, session, returned>>

\* ... a new message is saved and counted
SaveMessage(message, from) ==
    /\ Strip(message.text) # <<>>
    /\ ~Existing(job_posts, message.text, message.date)
    /\ \E flushed \in Flushed([job_posts |-> job_posts, skills |-> skills], message, from) :
           /\ job_posts' = flushed.job_posts
           /\ skills' = flushed.skills
    /\ saved_count' = saved_count + 1
    /\ position' = position + 1
    /\ UNCHANGED <<session, returned>>

\* ... or a statement raises: the duplicate query (nothing flushed), a flush
\* or the commit of save_job_post (flushed, not committed), or the refresh
\* after the commit (committed, saved_count not yet incremented)
FailMessage(message, from, fail) ==
    LET committed == [job_posts |-> job_posts, skills |-> skills]
    IN  /\ Strip(message.text) # <<>>
        /\ IF fail = "query" THEN Interrupted(committed, committed)
           ELSE /\ ~Existing(job_posts, message.text, message.date)
                /\ \E flushed \in Flushed(committed, message, from) :
                       IF fail = "refresh" THEN Interrupted(flushed, flushed)
                       ELSE Interrupted(committed, flushed)

ProcessMessage(from_text) ==
    /\ pc = "input" /\ session = "open"
    /\ position < Len(messages)
    /\ LET message == messages[position + 1]
       IN  \/ SkipMessage(message)
           \/ SkipDuplicate(message)
           \/ SaveMessage(message, from_text[message.text])
           \/ \E fail \in FailurePoints :
                  FailMessage(message, from_text[message.text], fail)
    /\ UNCHANGED <<messages, posts_before>>
    /\ UNCHANGED <<text, parts, pc, salary_value, salary_text, found_skills, title>>
    /\ UNCHANGED <<now, limit, all_skills, result, skill_name>>
    /\ VocabularyUntouched

\* lines 154-157: the loop is over, the session is closed, saved_count is
\* returned
FinishRun ==
    /\ pc = "input" /\ session = "open"
    /\ position = Len(messages)
    /\ session' = "closed"
    /\ returned' = Some(saved_count)
    /\ UNCHANGED <<messages, position, saved_count, posts_before>>
    /\ UNCHANGED <<text, parts, pc, salary_value, salary_text, found_skills, title>>
    /\ UNCHANGED <<job_posts, skills, now, limit, all_skills, result, skill_name>>
    /\ VocabularyUntouched

(***************************************************************************)
(* Aggregation: analytics.top_skills_week, top_skills_month,               *)
(* average_salary_per_skill, top_paying_skills                             *)
(***************************************************************************)
HoursPerDay == 24
\* timedelta(days=7) and timedelta(days=30)
WeekWindow == 7 * HoursPerDay
MonthWindow == 30 * HoursPerDay

\* a float as the fraction num/den (den > 0)
Frac(num, den) == [num |-> num, den |-> den]
FracAdd(a, b) == Frac(a.num * b.den + b.num * a.den, a.den * b.den)
FracEq(a, b) == a.num * b.den = b.num * a.den
FracGreater(a, b) == a.num * b.den > b.num * a.den

\* the posts linked to a skill: JobPost joined with Skill
PostsOf(id) == {p \in 1..Len(job_posts) : id \in job_posts[p].skills}
\* ... posted after the cutoff
PostsAfter(id, cutoff_date) == {p \in PostsOf(id) : job_posts[p].posted_date > cutoff_date}
\* ... posted at or after the cutoff
PostsSince(id, cutoff_date) == {p \in PostsOf(id) : job_posts[p].posted_date >= cutoff_date}

\* parsed = parse_salary(job.salary) for each stored post with a salary, by
\* post number (None for a post without one, which the loops never parse)
ParsedPosts ==
    <<>> \o [p \in 1..Len(job_posts) |->
                IF job_posts[p].salary = None THEN None
                ELSE parse_salary(job_posts[p].salary[1]).value]

\* the loop with `if parsed is not None:` in the place of `if parsed:`
ParsedSalariesNotNone(posts, parsed) ==
    {p \in posts : job_posts[p].salary # None /\ parsed[p] # None}

\* the loop over the jobs of a skill: the parsed value of each salary, kept if
\* truthy (`if parsed:`), as fractions; posts is a set of post numbers and
\* parsed the parsed values by post number
ParsedSalaries(posts, parsed) ==
    {p \in posts : /\ job_posts[p].salary # None
                   /\ parsed[p] # None
                   /\ parsed[p][1].sum # 0}

RECURSIVE SumSalaries(_, _)
\* sum(salaries)
SumSalaries(posts, parsed) ==
    IF posts = {} THEN Frac(0, 1)
    ELSE LET p == CHOOSE q \in posts : TRUE
             v == parsed[p][1]
         IN  FracAdd(Frac(v.sum, v.len), SumSalaries(posts \ {p}, parsed))

\* sum(salaries) / len(salaries), also when salaries is empty
AverageSalaryUnguarded(posts, parsed) ==
    LET salaries == ParsedSalaries(posts, parsed)
        total == SumSalaries(salaries, parsed)
    IN  Some(Frac(total.num, total.den * Cardinality(salaries)))

\* sum(salaries) / len(salaries) if salaries else None
AverageSalary(posts, parsed) ==
    LET salaries == ParsedSalaries(posts, parsed)
        total == SumSalaries(salaries, parsed)
    IN  IF salaries = {} THEN None
        ELSE Some(Frac(total.num, total.den * Cardinality(salaries)))

\* the sequences that list every element of S once
Orderings(S) ==
    {f \in [1..Cardinality(S) -> S] : \A i, j \in 1..Cardinality(S) : f[i] = f[j] => i = j}

\* s, not cut
WholeList(s, n) == s

\* s[:n] for n >= 0
FirstN(s, n) == SubSeq(s, 1, IF Len(s) < n THEN Len(s) ELSE n)

\* lines 88-99 and 156-167: the skills with a post since the cutoff, one row
\* per skill id with the count of its posts, ordered by the count descending
\* (rows of equal count in an order the query leaves open), cut at lim
CountRows(cutoff_date, lim) ==
    LET ids == {id \in 1..Len(skills) : PostsSince(id, cutoff_date) # {}}
        count(id) == Cardinality(PostsSince(id, cutoff_date))
    IN  {FirstN(ord, lim) : ord \in {o \in Orderings(ids) :
             \A i \in 1..(Len(o) - 1) : count(o[i]) >= count(o[i + 1])}}

\* lines 102-125 and 170-193: a dict per row
TopSkill(id, cutoff_date, parsed) ==
    [skill_name |-> skills[id],
     job_count |-> Cardinality(PostsSince(id, cutoff_date)),
     avg_salary |-> AverageSalary(PostsSince(id, cutoff_date), parsed)]

\* top_skills: the dicts of the rows in their order
TopRows(rows, cutoff_date, parsed) ==
    <<>> \o [i \in 1..Len(rows) |-> TopSkill(rows[i], cutoff_date, parsed)]

TopSkills(window, lim, at) ==
    /\ pc = "input"
    /\ limit' = lim
    /\ \E rows \in CountRows(now - window, lim) :
           result' = TopRows(rows, now - window, ParsedPosts)
    /\ pc' = at
    /\ UNCHANGED <<text, parts, salary_value, salary_text, found_skills, title>>
    /\ UNCHANGED <<job_posts, skills, now, all_skills, skill_name>>
    /\ VocabularyUntouched /\ CollectorUntouched

top_skills_week(lim) == TopSkills(WeekWindow, lim, "top_week")
top_skills_month(lim) == TopSkills(MonthWindow, lim, "top_month")

\* all the posts of a skill, with a salary or without
AllPostsOf(id) == PostsOf(id)
\* lines 225-230: the posts of a skill that have a salary
PaidPostsOf(id) == {p \in PostsOf(id) : job_posts[p].salary # None}

\* lines 223-248: a dict for each skill, taken in the given order, that has a
\* paid post and a salary that parses
RECURSIVE SalaryRows(_, _, _)
SalaryRows(ids, k, parsed) ==
    IF k > Len(ids) THEN <<>>
    ELSE LET jobs == PaidPostsOf(ids[k])
             avg == AverageSalary(jobs, parsed)
         IN  (IF jobs # {} /\ avg # None
              THEN <<[skill_name |-> skills[ids[k]], avg_salary |-> avg[1],
                      job_count |-> Cardinality(jobs)]>>
              ELSE <<>>)
             \o SalaryRows(ids, k + 1, parsed)

\* line 251: results.sort(key=avg_salary, reverse=True), a stable sort: the
\* rows by avg_salary descending, rows of equal avg_salary in the order they
\* had
SortedByAverage(rows) ==
    LET o == CHOOSE f \in Orderings(1..Len(rows)) :
                 \A a, b \in 1..Len(rows) :
                     a < b => \/ FracGreater(rows[f[a]].avg_salary, rows[f[b]].avg_salary)
                              \/ /\ FracEq(rows[f[a]].avg_salary, rows[f[b]].avg_salary)
                                 /\ f[a] < f[b]
    IN  <<>> \o [a \in 1..Len(rows) |-> rows[o[a]]]

\* lines 219-253: what average_salary_per_skill can return; db.query(Skill).all()
\* gives the skills in an order the query leaves open
AverageRowsOf(parsed) ==
    {SortedByAverage(SalaryRows(<<>> \o ids, 1, parsed)) : ids \in Orderings(1..Len(skills))}
AverageRows == AverageRowsOf(ParsedPosts)

average_salary_per_skill ==
    /\ pc = "input"
    /\ \E rows \in AverageRows : all_skills' = rows /\ result' = rows
    /\ pc' = "avg_per_skill"
    /\ UNCHANGED <<text, parts, salary_value, salary_text, found_skills, title>>
    /\ UNCHANGED <<job_posts, skills, now, limit, skill_name>>
    /\ VocabularyUntouched /\ CollectorUntouched

\* lines 271-272
top_paying_skills(lim) ==
    /\ pc = "input"
    /\ limit' = lim
    /\ \E rows \in AverageRows : all_skills' = rows /\ result' = FirstN(rows, lim)
    /\ pc' = "top_paying"
    /\ UNCHANGED <<text, parts, salary_value, salary_text, found_skills, title>>
    /\ UNCHANGED <<job_posts, skills, now, skill_name>>
    /\ VocabularyUntouched /\ CollectorUntouched

\* line 316: jobs_with_salary, the posts of a skill whose salary is truthy
\* (neither None nor the empty string)
PostsWithSalary(id) ==
    {p \in PostsOf(id) : job_posts[p].salary # None /\ job_posts[p].salary[1] # <<>>}

\* lines 325-331: the dict returned for the skill found
SkillInfo(id, parsed) ==
    [skill_name |-> skills[id],
     total_jobs |-> Cardinality(PostsOf(id)),
     avg_salary |-> AverageSalary(PostsWithSalary(id), parsed),
     jobs_last_7_days |-> Cardinality(PostsSince(id, now - WeekWindow)),
     jobs_last_30_days |-> Cardinality(PostsSince(id, now - MonthWindow))]

\* lines 295-297: the skills whose lower-cased name is the lower-cased argument
SkillsNamed(name) == {id \in 1..Len(skills) : ToLower(skills[id]) = ToLower(name)}

\* analytics.get_skill_info: None when no skill matches; .first() has no
\* ORDER BY, so of several matching skills the query may give any
get_skill_info(name) ==
    /\ pc = "input"
    /\ skill_name' = name
    /\ IF SkillsNamed(name) = {} THEN result' = None
       ELSE \E id \in SkillsNamed(name) : result' = Some(SkillInfo(id, ParsedPosts))
    /\ pc' = "skill_info"
    /\ UNCHANGED <<text, parts, salary_value, salary_text, found_skills, title>>
    /\ UNCHANGED <<job_posts, skills, now, limit, all_skills>>
    /\ VocabularyUntouched /\ CollectorUntouched

(***************************************************************************)
(* Posts saved and the windowed queries asked                              *)
(***************************************************************************)
\* the most posts stored and the greatest limit asked for
MaxPosts == 3
MaxLimit == 2

SkillNames == {Chars("Go"), Chars("Python")}
\* posted now, exactly a week ago, an hour more than a week ago, exactly
\* thirty days ago, an hour more than thirty days ago
PostedDates ==
    {0, 0 - WeekWindow, 0 - WeekWindow - 1, 0 - MonthWindow, 0 - MonthWindow - 1}

SavePostOfSkills ==
    \E posted_date \in PostedDates, names \in (SUBSET SkillNames) \ {{}} :
        /\ Len(job_posts) < MaxPosts
        /\ SaveJobPost(<<>>, posted_date, None, None, names)

InitStorage == text = <<>> /\ parts = <<>> /\ NotCalled

NextTop ==
    \/ SavePostOfSkills
    \/ \E lim \in 0..MaxLimit : top_skills_week(lim)
    \/ \E lim \in 0..MaxLimit : top_skills_month(lim)

SpecTop == InitStorage /\ [][NextTop]_vars

(***************************************************************************)
(* Posts saved with a salary text and the queries that average salaries    *)
(***************************************************************************)
\* the most posts stored
MaxPaidPosts == 2

\* salary texts: 100000, the range with mean 65000, zero, and one without a
\* number; None is a post without a salary
Salaries ==
    {None, Some(Chars("100k")), Some(Chars("50k-80k")), Some(Chars("0 USD")),
     Some(Chars("negotiable"))}
PaidSkillSets == {{Chars("Go")}, {Chars("Go"), Chars("Python")}}
\* posted now, and an hour more than a week ago
PaidDates == {0, 0 - WeekWindow - 1}

SavePaidPost ==
    \E posted_date \in PaidDates, salary \in Salaries, names \in PaidSkillSets :
        /\ Len(job_posts) < MaxPaidPosts
        /\ SaveJobPost(<<>>, posted_date, None, salary, names)

NextPay ==
    \/ SavePaidPost
    \/ top_skills_week(MaxLimit)
    \/ top_skills_month(MaxLimit)

SpecPay == InitStorage /\ [][NextPay]_vars

NextAverages ==
    \/ SavePaidPost
    \/ average_salary_per_skill
    \/ \E lim \in 0..MaxLimit : top_paying_skills(lim)

SpecAverages == InitStorage /\ [][NextAverages]_vars

(***************************************************************************)
(* Posts saved and every query of the aggregation engine                   *)
(***************************************************************************)
\* the most posts stored
MaxInfoPosts == 2

\* salary texts: 100000, zero, one without a number; None is a post without
\* a salary
InfoSalaries ==
    {None, Some(Chars("100k")), Some(Chars("0 USD")), Some(Chars("n/a"))}
\* posted now, an hour more than a week ago, an hour more than thirty days ago
InfoDates == {0, 0 - WeekWindow - 1, 0 - MonthWindow - 1}
\* the names asked for: two stored names in another letter case and a name
\* that is never stored
NamesAsked == {Chars("go"), Chars("PYTHON"), Chars("Rust")}

SaveInfoPost ==
    \E posted_date \in InfoDates, salary \in InfoSalaries, names \in PaidSkillSets :
        /\ Len(job_posts) < MaxInfoPosts
        /\ SaveJobPost(<<>>, posted_date, None, salary, names)

NextInfo ==
    \/ SaveInfoPost
    \/ top_skills_week(MaxLimit)
    \/ top_skills_month(MaxLimit)
    \/ average_salary_per_skill
    \/ top_paying_skills(MaxLimit)
    \/ \E name \in NamesAsked : get_skill_info(name)

SpecInfo == InitStorage /\ [][NextInfo]_vars

(***************************************************************************)
(* Skills requested under names that differ in letter case                 *)
(***************************************************************************)
\* the most posts stored
MaxCasedPosts == 2

CasedNames == {Chars("Go"), Chars("GO"), Chars("Python")}

SaveCasedPost ==
    \E names \in (SUBSET CasedNames) \ {{}} :
        /\ Len(job_posts) < MaxCasedPosts
        /\ SaveJobPost(<<>>, 0, None, None, names)

NextSkillTable ==
    \/ \E name \in CasedNames : get_or_create_skill(name)
    \/ SaveCasedPost

SpecSkillTable == InitStorage /\ [][NextSkillTable]_vars

(***************************************************************************)
(* Runs of the collector over the messages of a channel                    *)
(***************************************************************************)
\* the most messages a run fetches, and the number of stored posts from which
\* no further run is started
MaxBatch == 2
MaxCollected == 3

\* the texts of the channel: one of blanks only, and two postings
ChannelTexts == {Chars("  ")} \cup Messages
\* the messages of the channel: a text and a date; the first posting was
\* posted twice, an hour apart
ChannelMessages ==
    {[text |-> t, date |-> 0] : t \in ChannelTexts}
        \cup {[text |-> Chars("Hiring: Senior Go Dev, 50-80k"), date |-> 0 - 1]}
\* what client.get_messages can give
Batches ==
    UNION {[1..n -> ChannelMessages] : n \in 0..MaxBatch}
\* lines 119-121 for each text
Extractions == [t \in ChannelTexts |-> ExtractedFrom(t)]

NextCollector ==
    \/ \E batch \in Batches : StartRun(batch, MaxCollected)
    \/ FetchInterrupted
    \/ ProcessMessage(Extractions)
    \/ FinishRun

SpecCollector == InitStorage /\ [][NextCollector]_vars

(***************************************************************************)
(* Posts with and without a salary and the entries that count them         *)
(***************************************************************************)
\* the most posts stored
MaxCountedPosts == 3

\* salary texts: one that parses, one that does not; None is a post without
\* a salary
CountedSalaries == {None, Some(Chars("100k")), Some(Chars("negotiable"))}

SaveCountedPost ==
    \E salary \in CountedSalaries, names \in PaidSkillSets :
        /\ Len(job_posts) < MaxCountedPosts
        /\ SaveJobPost(<<>>, 0, None, salary, names)

NextCounts ==
    \/ SaveCountedPost
    \/ average_salary_per_skill
    \/ \E lim \in 0..MaxLimit : top_paying_skills(lim)

SpecCounts == InitStorage /\ [][NextCounts]_vars

(***************************************************************************)
(* Claims about the salary normalizer and the salary locator               *)
(***************************************************************************)
IsAmount(part) == part.kind = "amount"

RECURSIVE WrittenValues(_)
\* the values of the amounts a sequence of pieces spells, an amount directly
\* followed by k or K counting a thousandfold
WrittenValues(ps) ==
    IF ps = <<>> THEN <<>>
    ELSE IF ~IsAmount(Head(ps)) THEN WrittenValues(Tail(ps))
    ELSE <<IF Len(ps) > 1 /\ ps[2].kind = "k" THEN 1000 * Head(ps).val ELSE Head(ps).val>>
         \o WrittenValues(Tail(ps))

SalaryWritten == pc = "parsed" /\ \E j \in 1..Len(parts) : IsAmount(parts[j])
AllGrouped == \A j \in 1..Len(parts) : IsAmount(parts[j]) => parts[j].chars = FormatGrouped(parts[j].val)
AllPlain == \A j \in 1..Len(parts) : IsAmount(parts[j]) => parts[j].chars = FormatPlain(parts[j].val)

\* the mean of the written amounts is what parse_salary returned
ReturnsMeanOfWritten ==
    /\ salary_value.raised = "no"
    /\ salary_value.value =
           Some([sum |-> SumOf(WrittenValues(parts)), len |-> Len(WrittenValues(parts))])

\* parse_salary returned the number v
Returned(v) ==
    /\ salary_value.value # None
    /\ salary_value.value[1].sum = v * salary_value.value[1].len

DocumentedValue(ps) ==
    CASE ps[1].val = 55000 -> 62500
      [] ps[1].val = 1400 -> 1400
      [] ps[1].val = 50 -> 65000
      [] ps[1].val = 100 -> 100000
      [] ps[1].val = 20000 -> 30000
      [] ps[1].val = 80000 -> 100000

\* C1: for a salary string whose amounts are written comma grouped (or have
\* at most three digits), each optionally suffixed k or K, parse_salary
\* returns the arithmetic mean of all the amounts, however many there are;
\* the documented strings give 62500, 1400, 65000, 100000, 30000 and 100000.
C1_MeanOfAllTokens ==
    /\ (SalaryWritten /\ AllGrouped) => ReturnsMeanOfWritten
    /\ (pc = "parsed" /\ parts \in DocumentedSalaries) => Returned(DocumentedValue(parts))

\* three amounts were averaged
C1_Witness ==
    /\ SalaryWritten /\ AllGrouped
    /\ Len(WrittenValues(parts)) = 3
    /\ salary_value.value = Some([sum |-> 1500, len |-> 3])

\* C2: for a salary string whose amounts are written without thousands
\* separators, parse_salary returns the mean of the amounts' full values
\* ('50000' gives 50000, '50000-80000' gives 65000).
C2_PlainDigitRunsKeepTheirValue ==
    (SalaryWritten /\ AllPlain) => ReturnsMeanOfWritten

HasDigit(s) == \E j \in 1..Len(s) : s[j] \in Digit

\* C3: parse_salary never raises; it returns None for the null argument and
\* the empty string, and for every other string it returns None exactly when
\* the string holds no digit.
C3_NoneIffNoNumber ==
    /\ pc = "parsed_null" => salary_value = [raised |-> "no", value |-> None]
    /\ pc = "parsed" =>
          /\ salary_value.raised = "no"
          /\ (salary_value.value = None) <=> ~HasDigit(text)

\* a string with a digit among other characters was given a value
C3_Witness ==
    /\ pc = "parsed" /\ Len(text) = MaxChars
    /\ HasDigit(text) /\ \E j \in 1..Len(text) : text[j] \notin Digit
    /\ salary_value.value # None

RulesInOrder ==
    <<IgnoreCaseEach(SalaryRangePattern), IgnoreCaseEach(SalaryQualifiedPattern),
      IgnoreCaseEach(SalaryKRangePattern), IgnoreCaseEach(SalaryCurrencyPattern)>>

\* the match of rule k (1..4) anywhere in the upper-cased text t, as the text
\* matched, stripped, and where it starts; None for a rule without match
RuleMatch(t, k) ==
    LET f == Search(RulesInOrder[k], ToUpper(t))
    IN  IF f = None THEN None
        ELSE Some([matched |-> Strip(Group0(ToUpper(t), f[1])), start |-> f[1].start])

RuleMatches(t) == <<RuleMatch(t, 1), RuleMatch(t, 2), RuleMatch(t, 3), RuleMatch(t, 4)>>

\* C4: extract_salary returns the match of the lowest-numbered rule that
\* matches anywhere in the text, wherever the rules' matches lie, and None
\* only when no rule matches.
C4_LowestRuleWins ==
    pc = "located" =>
        LET ms == RuleMatches(text)
        IN  /\ (salary_text = None) <=> \A k \in 1..4 : ms[k] = None
            /\ \A k \in 1..4 :
                  (ms[k] # None /\ \A j \in 1..(k - 1) : ms[j] = None)
                      => salary_text = Some(ms[k][1].matched)

\* rule 2 matches earlier in the text than rule 1, and rule 1's range is returned
C4_Witness ==
    /\ pc = "located"
    /\ LET ms == RuleMatches(text)
       IN  /\ ms[1] # None /\ ms[2] # None
           /\ ms[2][1].start < ms[1][1].start
           /\ ms[1][1].matched # ms[2][1].matched
           /\ salary_text = Some(ms[1][1].matched)

\* t occurs in s as a contiguous run of characters
IsSubstring(t, s) == \E from \in 0..Len(s) : StartsWithAt(s, from, t)

\* C5: a result of extract_salary is a contiguous substring of the input
\* text, in the characters and the letter case of the input.
C5_ResultIsVerbatimSubstring ==
    (pc = "located" /\ salary_text # None) => IsSubstring(salary_text[1], text)

\* C6: for a range of two numbers of more than three digits written without
\* comma grouping, extract_salary returns the whole range.
C6_UngroupedRangeIsWhole ==
    (/\ pc = "located"
     /\ Len(parts) = 3
     /\ IsAmount(parts[1]) /\ parts[2].kind = "sep" /\ IsAmount(parts[3])
     /\ AllPlain /\ parts[1].val >= 1000 /\ parts[3].val >= 1000)
        => salary_text = Some(text)

(***************************************************************************)
(* Claims about the skill matcher                                          *)
(***************************************************************************)
\* piece j is a vocabulary entry standing alone: whitespace, punctuation or a
\* text boundary on either side
Standalone(j) ==
    /\ parts[j].kind = "skill"
    /\ j = 1 \/ parts[j - 1].kind = "delim"
    /\ j = Len(parts) \/ parts[j + 1].kind = "delim"

\* C7: every vocabulary entry that occurs in the text as a standalone term, in
\* any letter case, is in the result of extract_skills in the vocabulary's
\* casing; this includes 'C++', 'C#' and 'React Native'.
C7_StandaloneEntryIsFound ==
    pc = "matched" =>
        \A j \in 1..Len(parts) : Standalone(j) => TECH_SKILLS[parts[j].val] \in found_skills

\* the entry e occurs in the text, in any letter case, at a place where no
\* letter, digit or "_" comes directly before or after it
OccursAsWord(e, t) ==
    \E from \in 0..Len(t) :
        /\ StartsWithAt(ToUpper(t), from, ToUpper(e))
        /\ ~IsWordAt(t, from) /\ ~IsWordAt(t, from + Len(e) + 1)

\* C8: every reported name is a vocabulary entry, and none is reported whose
\* only occurrences in the text are directly preceded or followed by a
\* letter, a digit or "_".
C8_NoMatchInsideLongerWord ==
    pc = "matched" =>
        /\ \A e \in found_skills : \E k \in 1..Len(TECH_SKILLS) : TECH_SKILLS[k] = e
        /\ \A e \in found_skills : OccursAsWord(e, text)

(***************************************************************************)
(* Claims about the title inferencer                                       *)
(***************************************************************************)
TitleReturned == pc \in {"title_explicit", "title_fallback", "title_none"}

\* the words of the phrase, as pieces, and the phrase they spell
PhrasePieces == SelectSeq(parts, LAMBDA part : part.kind = "word")
PhraseOf(ws) == Written(ws)

\* the phrase without one leading article and the space after it
WithoutArticle(ws) ==
    IF Len(ws) > 1 /\ ws[1].chars \in Articles THEN Tail(Written(Tail(ws))) ELSE Written(ws)

\* word piece w begins, in any letter case, with one of the given words
BeginsWith(w, stems) ==
    LET word == IF w.grouped THEN w.chars ELSE Tail(w.chars)
    IN  \E stem \in stems : StartsWithAt(ToLower(word), 0, stem)

StopWords == {Chars("with"), Chars("for")}
RoleWords == {Chars("developer"), Chars("engineer"), Chars("specialist")}

\* the text is a cue of the given pattern and a phrase of 11 to 50 characters
CueAndPhrase(rule) ==
    /\ Len(parts) >= 2
    /\ parts[1].kind = "cue" /\ parts[1].val = rule
    /\ Len(PhraseOf(PhrasePieces)) >= 11 /\ Len(PhraseOf(PhrasePieces)) <= 50

\* C9: for a cue of the first pattern, an optional colon, whitespace and a
\* capitalized phrase of 11 to 50 letters and spaces with no stop word in it
\* that runs to the end of the text, extract_job_title returns the phrase
\* with one leading article removed.
C9_PhraseToEndOfTextIsTheTitle ==
    (/\ TitleReturned
     /\ CueAndPhrase(1)
     /\ LastKind = "word"
     /\ \A j \in 1..Len(PhrasePieces) :
            (IF j = 1 THEN PhrasePieces[j].chars ELSE Tail(PhrasePieces[j].chars))
                \notin {Chars("with"), Chars("With"), Chars("for"), Chars("For")})
        => title = Some(WithoutArticle(PhrasePieces))

RoleCuts ==
    {k \in 1..(Len(PhrasePieces) - 1) :
        /\ Len(PhraseOf(SubSeq(PhrasePieces, 1, k))) >= 11
        /\ BeginsWith(PhrasePieces[k + 1], RoleWords)}

PhraseText == Written(SelectSeq(parts, LAMBDA part : part.kind \in {"word", "letter"}))

\* C11: the explicit-cue phase accepts the phrase after a cue only if it
\* begins with an uppercase letter and is 10 to 50 characters long: a phrase
\* of exactly 10 characters is accepted, one of 51 characters is not, and one
\* that begins with a lowercase letter is not taken as an explicit title.
C11_CapitalizedTenToFifty ==
    (/\ TitleReturned
     /\ Len(parts) >= 2
     /\ parts[1].kind = "cue" /\ parts[1].val = 1)
        => /\ pc = "title_explicit" =>
                  /\ PhraseText[1] \in Upper
                  /\ Len(PhraseText) >= 10 /\ Len(PhraseText) <= 50
           /\ (PhraseText[1] \in Upper /\ Len(PhraseText) = 10) => pc = "title_explicit"

\* the first five tokens of line j, joined by single spaces
CandidateOf(j) == JoinWith(Take(LineKinds[parts[j].val].tokens, 5), <<" ">>)

\* line j is one of the first five, contains a title-indicating word, has at
\* least two tokens, and its candidate is shorter than 100 characters
GivesTitle(j) ==
    /\ j <= 5
    /\ LineKinds[parts[j].val].indicator
    /\ Len(LineKinds[parts[j].val].tokens) >= 2
    /\ Len(CandidateOf(j)) < 100

TitleLines == {j \in 1..Len(parts) : GivesTitle(j)}

\* C12: when no explicit cue yields a title, the result is the first five
\* tokens, joined by single spaces, of the first of the first five lines that
\* contains a title-indicating word, has at least two tokens and gives a
\* candidate under 100 characters; a line after the fifth never gives a title.
C12_FirstTitleLineOfFive ==
    (TitleReturned /\ pc # "title_explicit" /\ LastKind \in {"start", "line"})
        => title = IF TitleLines = {} THEN None ELSE Some(CandidateOf(Least(TitleLines)))

\* the title line is the sixth line only: no title
C12_Witness ==
    /\ pc = "title_none"
    /\ Len(parts) = 6
    /\ LineKinds[parts[6].val].indicator /\ Len(LineKinds[parts[6].val].tokens) >= 2
    /\ \E j \in 1..5 : LineKinds[parts[j].val].indicator

\* the cue phrases of the two patterns (any whitespace between their words,
\* any letter case); 'we need' contains 'need'
CuePhrases ==
    {Chars("hiring"), Chars("seeking"), Chars("vacancy"), Chars("position"), Chars("role"),
     Chars("need"), Chars("required")}
HasLookingFor(t) ==
    LET low == ToLower(t)
    IN  \E from \in 0..Len(t) :
            /\ StartsWithAt(low, from, Chars("looking"))
            /\ \E gap \in 1..(Len(t) - from - 7) :
                   /\ \A j \in 1..gap : t[from + 7 + j] \in Space
                   /\ StartsWithAt(low, from + 7 + gap, Chars("for"))
HasCue(t) ==
    LET low == ToLower(t)
    IN  HasLookingFor(t) \/ \E cue \in CuePhrases : IsSubstring(cue, low)

\* one of the eleven title-indicating words occurs in the text
HasIndicator(t) == \E w \in 1..Len(common_titles) : IsSubstring(common_titles[w], t)

\* C13: for a text with none of the cue phrases and none of the
\* title-indicating words, extract_job_title returns None.
C13_NoCueNoIndicatorNoTitle ==
    (TitleReturned /\ LastKind \in {"start", "fragment"} /\ ~HasCue(text) /\ ~HasIndicator(text))
        => title = None /\ pc = "title_none"

\* a capitalized phrase and a title word in lower case, without a cue
C13_Witness ==
    /\ pc = "title_none"
    /\ ~HasCue(text) /\ ~HasIndicator(text)
    /\ IsSubstring(Chars("Experienced Operators"), text)
    /\ IsSubstring(Chars("senior staff"), text)

TopReturned == pc \in {"top_week", "top_month"}
\* the window of the query that returned
WindowAsked == IF pc = "top_week" THEN 7 * 24 ELSE 30 * 24

\* the stored posts linked to the skill of that name and posted within the
\* window of the query
InWindow(name) ==
    {p \in 1..Len(job_posts) :
        /\ \E id \in job_posts[p].skills : skills[id] = name
        /\ job_posts[p].posted_date >= now - WindowAsked}

ResultNames == {result[i].skill_name : i \in 1..Len(result)}
StoredNames == {skills[id] : id \in 1..Len(skills)}

\* C15: top_skills_week and top_skills_month return at most `limit` entries,
\* with job_count non-increasing, and no skill left out has more posts in the
\* window than a skill in the result.
C15_AtMostLimitAndDescending ==
    TopReturned =>
        /\ Len(result) <= limit
        /\ \A i \in 1..(Len(result) - 1) : result[i].job_count >= result[i + 1].job_count
        /\ \A name \in StoredNames \ ResultNames : \A i \in 1..Len(result) :
               Cardinality(InWindow(name)) <= Cardinality(InWindow(result[i].skill_name))

\* the limit cuts off a skill with fewer posts in the window
C15_Witness ==
    /\ TopReturned
    /\ limit = 1 /\ Len(result) = 1
    /\ result[1].job_count = 2
    /\ \E name \in StoredNames \ ResultNames : Cardinality(InWindow(name)) = 1

\* the names in ascending order
NamesAscending == <<Chars("Go"), Chars("Python")>>
NameBefore(a, b) ==
    \E i, j \in 1..Len(NamesAscending) : i < j /\ NamesAscending[i] = a /\ NamesAscending[j] = b

\* C16: in the result of top_skills_week / top_skills_month skills of equal
\* job_count are in ascending order of name, also across the limit cut: a
\* skill cut off does not come before a returned skill of the same count.
C16_TiesByNameAscending ==
    TopReturned =>
        /\ \A i \in 1..(Len(result) - 1) :
               result[i].job_count = result[i + 1].job_count
                   => NameBefore(result[i].skill_name, result[i + 1].skill_name)
        /\ limit > 0 =>
               \A name \in StoredNames \ ResultNames : \A i \in 1..Len(result) :
                   Cardinality(InWindow(name)) = result[i].job_count
                       => NameBefore(result[i].skill_name, name)

\* C17: the job_count reported for a skill is the number of stored posts
\* linked to it and posted at or after query time minus the window (7 days
\* for the week, 30 days for the month): a post dated exactly at the cutoff
\* counts, one dated before it does not.
C17_CountsPostsInWindow ==
    TopReturned =>
        \A i \in 1..Len(result) :
            result[i].job_count = Cardinality(InWindow(result[i].skill_name))

\* a skill with a post exactly at the cutoff and one an hour older: count 1
C17_Witness ==
    /\ TopReturned
    /\ \E i \in 1..Len(result) :
           /\ result[i].job_count = 1
           /\ \E p, q \in 1..Len(job_posts) :
                  /\ \E id \in job_posts[p].skills \cap job_posts[q].skills :
                         skills[id] = result[i].skill_name
                  /\ job_posts[p].posted_date = now - WindowAsked
                  /\ job_posts[q].posted_date = now - WindowAsked - 1

(***************************************************************************)
(* Claims about the salary averages                                        *)
(***************************************************************************)
\* the salary text of stored post p parses
SalaryParses(p) ==
    /\ job_posts[p].salary # None
    /\ parse_salary(job_posts[p].salary[1]).value # None

\* the mean, as a fraction, of parse_salary over a non-empty set of posts
\* whose salary parses
MeanOfParsed(posts) ==
    LET total == SumSalaries(posts, ParsedPosts)
    IN  Frac(total.num, total.den * Cardinality(posts))

\* C18: for each skill returned by top_skills_week / top_skills_month,
\* avg_salary is the mean of parse_salary over the skill's posts in the window
\* whose salary text parses; posts without a salary or with one that does not
\* parse count in neither the sum nor the divisor; avg_salary is None when no
\* post of the skill in the window has a salary that parses.
C18_AverageOfParsedSalaries ==
    TopReturned =>
        \A i \in 1..Len(result) :
            LET parsed == {p \in InWindow(result[i].skill_name) : SalaryParses(p)}
            IN  IF parsed = {} THEN result[i].avg_salary = None
                ELSE /\ result[i].avg_salary # None
                     /\ FracEq(result[i].avg_salary[1], MeanOfParsed(parsed))

AveragesReturned == pc = "avg_per_skill"
\* the stored posts linked to the skill of that name
LinkedTo(name) ==
    {p \in 1..Len(job_posts) : \E id \in job_posts[p].skills : skills[id] = name}
\* ... whose salary text parses
ParsedOf(name) == {p \in LinkedTo(name) : SalaryParses(p)}

\* C19: average_salary_per_skill returns exactly one entry for every stored
\* skill with at least one linked post whose salary parses and none for any
\* other skill; each entry's avg_salary is the mean of the parsed salaries of
\* the skill's posts; the entries are in non-increasing order of avg_salary.
C19_OneEntryPerPaidSkillDescending ==
    AveragesReturned =>
        /\ \A name \in StoredNames :
               Cardinality({i \in 1..Len(result) : result[i].skill_name = name})
                   = IF ParsedOf(name) = {} THEN 0 ELSE 1
        /\ \A i \in 1..Len(result) :
               /\ result[i].skill_name \in StoredNames
               /\ ParsedOf(result[i].skill_name) # {}
               /\ FracEq(result[i].avg_salary, MeanOfParsed(ParsedOf(result[i].skill_name)))
        /\ \A i \in 1..(Len(result) - 1) :
               ~FracGreater(result[i + 1].avg_salary, result[i].avg_salary)

TopPayingReturned == pc = "top_paying"
\* C20: for every storage and every limit >= 0, top_paying_skills(limit) is
\* the first min(limit, n) entries, in the same order, of the list of n
\* entries that average_salary_per_skill gives on the same storage.
C20_FirstLimitOfAverages ==
    TopPayingReturned =>
        /\ all_skills \in AverageRows
        /\ Len(result) = (IF limit < Len(all_skills) THEN limit ELSE Len(all_skills))
        /\ \A i \in 1..Len(result) : result[i] = all_skills[i]

\* two skills have an average and the limit of 1 keeps the higher one
C20_Witness ==
    /\ TopPayingReturned
    /\ limit = 1
    /\ Len(all_skills) = 2
    /\ Len(result) = 1
    /\ FracGreater(result[1].avg_salary, all_skills[2].avg_salary)

(***************************************************************************)
(* Claims about the skill summary and the skill table                      *)
(***************************************************************************)
InfoReturned == pc = "skill_info"
\* two names are equal ignoring letter case
SameIgnoringCase(a, b) == ToUpper(a) = ToUpper(b)
\* the stored posts linked to the skill of that name and posted within the
\* last `days` days
LinkedWithin(name, days) ==
    {p \in LinkedTo(name) : job_posts[p].posted_date >= now - days * 24}

\* C21: get_skill_info(name) returns None when no stored skill has a name
\* equal to `name` ignoring letter case; otherwise it reports such a skill: its
\* stored name, the number of all posts linked to it, the numbers of those
\* posted in the last 7 and in the last 30 days, and its overall average
\* salary (the mean of the parsed salaries of its posts, None when none
\* parses).
C21_SkillInfoByNameIgnoringCase ==
    InfoReturned =>
        IF \A id \in 1..Len(skills) : ~SameIgnoringCase(skills[id], skill_name)
        THEN result = None
        ELSE /\ result # None
             /\ SameIgnoringCase(result[1].skill_name, skill_name)
             /\ result[1].skill_name \in StoredNames
             /\ result[1].total_jobs = Cardinality(LinkedTo(result[1].skill_name))
             /\ result[1].jobs_last_7_days = Cardinality(LinkedWithin(result[1].skill_name, 7))
             /\ result[1].jobs_last_30_days = Cardinality(LinkedWithin(result[1].skill_name, 30))
             /\ LET parsed == ParsedOf(result[1].skill_name)
                IN  IF parsed = {} THEN result[1].avg_salary = None
                    ELSE /\ result[1].avg_salary # None
                         /\ FracEq(result[1].avg_salary[1], MeanOfParsed(parsed))

\* C22: after any sequence of get_or_create_skill and save_job_post calls no
\* two stored skills have names that are equal ignoring letter case (a request
\* for a name that differs only in case from a stored one creates no skill).
C22_NamesUniqueIgnoringCase ==
    \A i, j \in 1..Len(skills) : SameIgnoringCase(skills[i], skills[j]) => i = j

(***************************************************************************)
(* Claims about the aggregation engine as a whole                          *)
(***************************************************************************)
ListReturned == pc \in {"top_week", "top_month", "avg_per_skill", "top_paying"}
\* the averages reported by the query that returned
AveragesReported ==
    IF pc \in {"top_week", "top_month"}
    THEN {result[i].avg_salary[1] : i \in {k \in 1..Len(result) : result[k].avg_salary # None}}
    ELSE IF pc \in {"avg_per_skill", "top_paying"}
    THEN {result[i].avg_salary : i \in 1..Len(result)}
    ELSE IF pc = "skill_info" /\ result # None /\ result[1].avg_salary # None
    THEN {result[1].avg_salary[1]}
    ELSE {}

\* C23: with no stored post and no stored skill, top_skills_week,
\* top_skills_month, average_salary_per_skill and top_paying_skills return an
\* empty list and get_skill_info returns None; no query divides by zero: an
\* average reported is a sum divided by a positive number of salaries, also
\* when a skill has no salaries.
C23_EmptyStorageEmptyAnswers ==
    /\ (job_posts = <<>> /\ skills = <<>>) =>
           /\ ListReturned => Len(result) = 0
           /\ InfoReturned => result = None
    /\ \A avg \in AveragesReported : avg.den > 0

\* average_salary_per_skill has returned on the empty storage
C23_Witness ==
    /\ job_posts = <<>> /\ skills = <<>>
    /\ pc = "avg_per_skill"
    /\ result = <<>>

(***************************************************************************)
(* Claims about the collector's runs                                       *)
(***************************************************************************)
RunOver == session = "closed"
\* the message was stored when the run began
StoredBefore(message) ==
    \E p \in 1..posts_before :
        /\ job_posts[p].raw_text = message.text
        /\ job_posts[p].posted_date = message.date
\* the messages of the batch with a text that were not stored when the run
\* began, each text and date once
NewInBatch ==
    {messages[i] : i \in {k \in 1..Len(messages) :
        /\ \E c \in 1..Len(messages[k].text) : messages[k].text[c] # " "
        /\ ~StoredBefore(messages[k])}}

\* C24: after any sequence of runs of collect_from_channel, one at a time, no
\* two stored posts have the same raw_text and the same posted_date; a
\* message whose text and date are those of a stored post (of an earlier run
\* or of the same batch) is neither saved nor counted, so a run over messages
\* that are all stored saves and counts nothing.
C24_NoPostStoredTwice ==
    /\ \A p, q \in 1..Len(job_posts) :
           (/\ job_posts[p].raw_text = job_posts[q].raw_text
            /\ job_posts[p].posted_date = job_posts[q].posted_date) => p = q
    /\ RunOver =>
           /\ returned[1] <= Cardinality(NewInBatch)
           /\ Len(job_posts) - posts_before <= Cardinality(NewInBatch)

\* a run over two different messages, both stored by an earlier run, went
\* through the whole batch and returned 0
C24_Witness ==
    /\ RunOver
    /\ Len(messages) = 2 /\ position = 2
    /\ messages[1] # messages[2]
    /\ StoredBefore(messages[1]) /\ StoredBefore(messages[2])
    /\ Len(job_posts) = posts_before
    /\ returned = Some(0)

\* the names of the skills linked to stored post p
SkillsOfPost(p) ==
    {skills[id] : id \in job_posts[p].skills \cap (1..Len(skills))}

\* C25: when a run of collect_from_channel is over, also one that an
\* exception interrupted, it has returned (the exception does not reach the
\* caller) the number of posts the run committed; the session is closed;
\* every stored post has the links to all its skills and every stored skill
\* is linked to a stored post, so that the post being written at the failure
\* left nothing behind.
C25_ReturnsNumberCommitted ==
    RunOver =>
        /\ returned # None
        /\ returned[1] = Len(job_posts) - posts_before
        /\ \A p \in 1..Len(job_posts) :
               /\ job_posts[p].skills \subseteq 1..Len(skills)
               /\ SkillsOfPost(p) = extract_skills(job_posts[p].raw_text)
        /\ \A id \in 1..Len(skills) : \E p \in 1..Len(job_posts) : id \in job_posts[p].skills

(***************************************************************************)
(* Claims about rules that other rules cover                               *)
(***************************************************************************)
\* C26: rules 3 and 4 of extract_salary never decide the result: in every
\* text in which rule 3 (two k-suffixed numbers around a dash) matches, rule 1
\* matches too, and in every text in which rule 4 (a number and a currency
\* code) matches, rule 2 matches too; what is returned is the match of rule 1,
\* or that of rule 2, or nothing.
C26_LaterRulesNeverDecide ==
    pc = "located" =>
        LET ms == RuleMatches(text)
        IN  /\ ms[3] # None => ms[1] # None
            /\ ms[4] # None => ms[2] # None
            /\ \/ salary_text = None
               \/ ms[1] # None /\ salary_text = Some(ms[1][1].matched)
               \/ ms[1] = None /\ ms[2] # None /\ salary_text = Some(ms[2][1].matched)

\* a text in which rule 4 matches and rule 1 does not: rule 2 decides
C26_Witness ==
    /\ pc = "located"
    /\ LET ms == RuleMatches(text)
       IN  /\ ms[4] # None /\ ms[1] = None
           /\ salary_text = Some(ms[2][1].matched)

\* the salary text of stored post p parses to a number other than 0
CountsInAverage(p) ==
    /\ SalaryParses(p)
    /\ parse_salary(job_posts[p].salary[1]).value[1].sum # 0
\* the salary text of stored post p parses to 0
NormalizesToZero(p) ==
    /\ SalaryParses(p)
    /\ parse_salary(job_posts[p].salary[1]).value[1].sum = 0
\* avg is the mean over the posts of the set that count, None when none does
\* parse_salary of each salary text that the posts of SpecInfo carry
InfoParsed ==
    [t \in {salary[1] : salary \in InfoSalaries \ {None}} |-> parse_salary(t).value]

\* (parsed is parse_salary of each stored post, by post number)
AverageLeavingOutZero(avg, posts, parsed) ==
    LET counted == {p \in posts : parsed[p] # None /\ parsed[p][1].sum # 0}
        total == SumSalaries(counted, parsed)
    IN  IF counted = {} THEN avg = None
        ELSE /\ avg # None
             /\ FracEq(avg[1], Frac(total.num, total.den * Cardinality(counted)))

\* C27: every aggregate handles a stored salary text that parse_salary
\* normalizes to 0 like one that does not parse: it is in neither the sum nor
\* the divisor of the average; a skill whose salaries all normalize to 0 or do
\* not parse has avg_salary None in top_skills_week, top_skills_month and
\* get_skill_info and no entry in average_salary_per_skill.
C27_ZeroSalaryIsLeftOut ==
    LET parsed == <<>> \o [p \in 1..Len(job_posts) |->
                              IF job_posts[p].salary = None THEN None
                              ELSE InfoParsed[job_posts[p].salary[1]]]
    IN  /\ TopReturned =>
               \A i \in 1..Len(result) :
                   AverageLeavingOutZero(result[i].avg_salary,
                                         InWindow(result[i].skill_name), parsed)
        /\ (InfoReturned /\ result # None) =>
               AverageLeavingOutZero(result[1].avg_salary,
                                     LinkedTo(result[1].skill_name), parsed)
        /\ AveragesReturned =>
               /\ ResultNames =
                      {name \in StoredNames :
                          \E p \in LinkedTo(name) :
                              parsed[p] # None /\ parsed[p][1].sum # 0}
               /\ \A i \in 1..Len(result) :
                      AverageLeavingOutZero(Some(result[i].avg_salary),
                                            LinkedTo(result[i].skill_name), parsed)

\* average_salary_per_skill has returned: one skill has a salary that counts
\* and one that normalizes to 0, and its average is the first alone; another
\* skill, whose only salary normalizes to 0, has no entry
C27_Witness ==
    /\ AveragesReturned
    /\ Len(result) = 1
    /\ \E p, q \in LinkedTo(result[1].skill_name) :
           /\ CountsInAverage(p) /\ NormalizesToZero(q)
           /\ FracEq(result[1].avg_salary, MeanOfParsed({p}))
    /\ \E name \in StoredNames \ ResultNames : \A p \in LinkedTo(name) : NormalizesToZero(p)

EntriesReturned == pc \in {"avg_per_skill", "top_paying"}
\* the stored posts linked to the skill of that name that have a salary text
WithSalaryText(name) == {p \in LinkedTo(name) : job_posts[p].salary # None}
\* ... whose salary was averaged
Averaged(name) == {p \in LinkedTo(name) : CountsInAverage(p)}

\* C28: in every entry returned by average_salary_per_skill and
\* top_paying_skills, job_count is the number of the skill's posts that have a
\* salary text, parsed or not: at least the number of salaries averaged and
\* at most the number of all posts linked to the skill.
C28_JobCountIsPostsWithSalaryText ==
    EntriesReturned =>
        \A i \in 1..Len(result) :
            /\ result[i].job_count = Cardinality(WithSalaryText(result[i].skill_name))
            /\ result[i].job_count >= Cardinality(Averaged(result[i].skill_name))
            /\ result[i].job_count <= Cardinality(LinkedTo(result[i].skill_name))

\* an entry of top_paying_skills whose job_count is greater than the number
\* of salaries averaged and less than the number of posts of the skill
C28_Witness ==
    /\ pc = "top_paying"
    /\ \E i \in 1..Len(result) :
           /\ result[i].job_count > Cardinality(Averaged(result[i].skill_name))
           /\ result[i].job_count < Cardinality(LinkedTo(result[i].skill_name))

====
